---------------------------- MODULE Spec2Model ----------------------------
(***************************************************************************)
(* A model of loki_reader_core.client: the LokiClient's label discovery    *)
(* caches, its query() orchestration and the helpers it is built from.     *)
(*                                                                         *)
(* Python strings are sequences of one-character strings, so that strip(), *)
(* lower(), startswith() and concatenation are computed, not assumed.      *)
(* Python's None is the one-element tuple <<"None">>, which no string      *)
(* equals (every element of a string is a single character).               *)
(***************************************************************************)
EXTENDS Integers, Sequences, FiniteSets, TLC

VARIABLES
    labelValues,            \* upstream Loki: label name -> set of its values
    _session,               \* LokiClient._session: 0 is None, 1 a requests.Session
    _app_label_cache,       \* LokiClient._app_label_cache (a dict)
    _severity_label_cache,  \* LokiClient._severity_label_cache
    last,                   \* the call that has just returned, NoCall when idle
    thr,                    \* concurrent callers: thread -> its position
    dirty,                  \* upstream changed after a concurrent call began
    sevIn,                  \* input of _build_severity_regex under test
    sevOut,                 \* its outcome
    input,                  \* <<function, argument>>: a function applied alone
    output                  \* its outcome

vars == <<labelValues, _session, _app_label_cache,
          _severity_label_cache, last, thr, dirty, sevIn, sevOut, input, output>>

clientVars == <<_session, _app_label_cache, _severity_label_cache>>
concVars == <<thr, dirty>>
sevVars == <<sevIn, sevOut>>
fnVars == <<input, output>>

---------------------------------------------------------------------------
(* Bounds of the model.                                                    *)

\* upstream holds at most this many (label, value) pairs at a time
MaxUpstream == 2
\* a response holds at most this many result elements
MaxResults == 2
\* the sample timestamps include the first MaxMillis milliseconds of a second
MaxMillis == 24
\* whitespace characters put before and after a severity input
MaxPad == 1
\* the requests of a call that can fail: its first MaxFaultAt ones
MaxFaultAt == 3

---------------------------------------------------------------------------
(* Strings.                                                                *)

None == <<"None">>


LowerLetters == <<"a", "b", "c", "d", "e", "f", "g", "h", "i", "j", "k", "l", "m",
                  "n", "o", "p", "q", "r", "s", "t", "u", "v", "w", "x", "y", "z">>
UpperLetters == <<"A", "B", "C", "D", "E", "F", "G", "H", "I", "J", "K", "L", "M",
                  "N", "O", "P", "Q", "R", "S", "T", "U", "V", "W", "X", "Y", "Z">>

\* the lower-case letter of each upper-case letter, and the reverse
LowerTable ==
    [c \in {UpperLetters[i] : i \in 1..Len(UpperLetters)} |->
        LowerLetters[CHOOSE i \in 1..Len(UpperLetters) : UpperLetters[i] = c]]
UpperTable ==
    [c \in {LowerLetters[i] : i \in 1..Len(LowerLetters)} |->
        UpperLetters[CHOOSE i \in 1..Len(LowerLetters) : LowerLetters[i] = c]]

\* str.lower()
Lower(s) == [i \in 1..Len(s) |-> IF s[i] \in DOMAIN LowerTable THEN LowerTable[s[i]] ELSE s[i]]

\* str.upper() and str.capitalize(), used to build inputs
Upper(s) == [i \in 1..Len(s) |-> IF s[i] \in DOMAIN UpperTable THEN UpperTable[s[i]] ELSE s[i]]
Capitalize(s) ==
    IF s = <<>> THEN <<>> ELSE Upper(SubSeq(s, 1, 1)) \o Lower(SubSeq(s, 2, Len(s)))

\* str.strip(): drop the leading and the trailing whitespace (of the
\* whitespace characters, those the inputs use)
Strip(s) ==
    LET keep == {i \in 1..Len(s) : s[i] \notin {" ", "\t", "\n"}}
    IN  IF keep = {} THEN <<>>
        ELSE LET lo == CHOOSE i \in keep : \A j \in keep : i <= j
                 hi == CHOOSE i \in keep : \A j \in keep : j <= i
             IN  SubSeq(s, lo, hi)

\* sep.join(parts)
RECURSIVE Join(_, _)
Join(sep, parts) ==
    IF parts = <<>> THEN <<>>
    ELSE IF Len(parts) = 1 THEN parts[1]
    ELSE parts[1] \o sep \o Join(sep, Tail(parts))

\* x in list
InList(x, list) == \E i \in 1..Len(list) : list[i] = x

---------------------------------------------------------------------------
(* Outcomes of a Python call: a value, or an exception raised.             *)

NoExc == [type |-> "None", msg |-> ""]
Exc(t, m) == [type |-> t, msg |-> m]
Ok(v) == [exc |-> NoExc, val |-> v]
Raise(e) == [exc |-> e, val |-> None]

---------------------------------------------------------------------------
(* client.py: module constants and _build_severity_regex.                  *)

\* a variant with the first and the last name exchanged
APP_LABEL_NAMES_exchanged ==
    <<<<"l", "o", "g", "g", "e", "r">>,
      <<"a", "p", "p">>,
      <<"j", "o", "b">>,
      <<"s", "e", "r", "v", "i", "c", "e">>,
      <<"s", "e", "r", "v", "i", "c", "e", "_", "n", "a", "m", "e">>,
      <<"a", "p", "p", "l", "i", "c", "a", "t", "i", "o", "n">>>>

APP_LABEL_NAMES ==
    <<<<"a", "p", "p", "l", "i", "c", "a", "t", "i", "o", "n">>,
      <<"a", "p", "p">>,
      <<"j", "o", "b">>,
      <<"s", "e", "r", "v", "i", "c", "e">>,
      <<"s", "e", "r", "v", "i", "c", "e", "_", "n", "a", "m", "e">>,
      <<"l", "o", "g", "g", "e", "r">>>>

SEVERITY_LABEL_NAMES ==
    <<<<"l", "e", "v", "e", "l">>,
      <<"s", "e", "v", "e", "r", "i", "t", "y">>,
      <<"l", "o", "g", "_", "l", "e", "v", "e", "l">>,
      <<"l", "o", "g", "l", "e", "v", "e", "l">>>>

SEVERITY_TIERS ==
    <<<<"t", "r", "a", "c", "e">>,
      <<"d", "e", "b", "u", "g">>,
      <<"i", "n", "f", "o">>,
      <<"w", "a", "r", "n">>,
      <<"w", "a", "r", "n", "i", "n", "g">>,
      <<"e", "r", "r", "o", "r">>,
      <<"f", "a", "t", "a", "l">>,
      <<"c", "r", "i", "t", "i", "c", "a", "l">>>>

canonical ==
    <<<<"t", "r", "a", "c", "e">>,
      <<"d", "e", "b", "u", "g">>,
      <<"i", "n", "f", "o">>,
      <<"w", "a", "r", "n">>,
      <<"e", "r", "r", "o", "r">>,
      <<"f", "a", "t", "a", "l">>>>

\* a variant that puts the aliases after all the levels
expanded_grouped(selected) ==
    selected
        \o (IF InList(<<"w", "a", "r", "n">>, selected)
            THEN <<<<"w", "a", "r", "n", "i", "n", "g">>>> ELSE <<>>)
        \o (IF InList(<<"f", "a", "t", "a", "l">>, selected)
            THEN <<<<"c", "r", "i", "t", "i", "c", "a", "l">>>> ELSE <<>>)

\* the loop over selected: each level, "warning" after warn, "critical" after fatal
RECURSIVE expanded(_)
expanded(selected) ==
    IF selected = <<>> THEN <<>>
    ELSE LET level == Head(selected)
         IN  (IF level = <<"w", "a", "r", "n">>
              THEN <<level, <<"w", "a", "r", "n", "i", "n", "g">>>>
              ELSE IF level = <<"f", "a", "t", "a", "l">>
              THEN <<level, <<"c", "r", "i", "t", "i", "c", "a", "l">>>>
              ELSE <<level>>) \o expanded(Tail(selected))

normalized(min_severity) ==
    LET n0 == Lower(Strip(min_severity))
        n1 == IF n0 = <<"w", "a", "r", "n", "i", "n", "g">>
              THEN <<"w", "a", "r", "n">> ELSE n0
    IN  IF n1 = <<"c", "r", "i", "t", "i", "c", "a", "l">>
        THEN <<"f", "a", "t", "a", "l">> ELSE n1

_build_severity_regex(min_severity) ==
    LET n == normalized(min_severity)
    IN  IF ~InList(n, canonical)
        THEN Raise(Exc("ValueError", "is not in list"))
        ELSE LET idx == CHOOSE i \in 1..Len(canonical) :
                            canonical[i] = n /\ \A j \in 1..(i - 1) : canonical[j] # n
                 selected == SubSeq(canonical, idx, Len(canonical))
             IN  Ok(Join(<<"|">>, expanded(selected)))

---------------------------------------------------------------------------
(* utils.py: nanosecond integers.  Python's integers are unbounded; a      *)
(* nanosecond count x is kept as the pair <<x \div 10^9, x % 10^9>>.       *)

NANOSECONDS_PER_SECOND == 1000000000
SECONDS_PER_MINUTE == 60
MINUTES_PER_HOUR == 60

Ns(sec, nano) == <<sec, nano>>
NANOSECONDS_PER_MINUTE == Ns(SECONDS_PER_MINUTE, 0)
NANOSECONDS_PER_HOUR == Ns(SECONDS_PER_MINUTE * MINUTES_PER_HOUR, 0)

\* k * x and x - y on nanosecond integers
NsTimes(k, x) ==
    LET nn == k * x[2]
    IN  Ns(k * x[1] + (nn \div NANOSECONDS_PER_SECOND), nn % NANOSECONDS_PER_SECOND)
NsMinus(x, y) ==
    IF x[2] >= y[2] THEN Ns(x[1] - y[1], x[2] - y[2])
    ELSE Ns(x[1] - y[1] - 1, (x[2] + NANOSECONDS_PER_SECOND) - y[2])

\* str(k) for a natural number k
RECURSIVE DecStr(_)
DecStr(k) ==
    IF k < 10 THEN <<(<<"0", "1", "2", "3", "4", "5", "6", "7", "8", "9">>)[k + 1]>>
    ELSE DecStr(k \div 10) \o DecStr(k % 10)

RECURSIVE ZeroPad(_, _)
ZeroPad(str, width) == IF Len(str) >= width THEN str ELSE ZeroPad(<<"0">> \o str, width)

\* str(x) for a nanosecond integer x >= 0
NsStr(x) == IF x[1] = 0 THEN DecStr(x[2]) ELSE DecStr(x[1]) \o ZeroPad(DecStr(x[2]), 9)

---------------------------------------------------------------------------
(* Python dicts are functions on the keys present.                         *)

EmptyDict == <<>>
DictGet(d, k, default) == IF k \in DOMAIN d THEN d[k] ELSE default
DictSet(d, k, v) == [x \in (DOMAIN d) \cup {k} |-> IF x = k THEN v ELSE d[x]]


---------------------------------------------------------------------------
(* models: the objects of the dataclasses are records with their fields    *)
(* and a field "class"; the dicts of a JSON document are records of the    *)
(* keys present and its lists are sequences.  None in the place of a dict  *)
(* or of an object is NoneObject.  Status, result type, labels and         *)
(* messages are strings that are only copied.                              *)

NoneObject == [None |-> TRUE]

\* bool(x) of a dict, an object or None
Truthy(x) == "None" \notin DOMAIN x /\ DOMAIN x # {}

\* A Python int in a JSON document, and a float: whole + frac / 2^22.  The
\* floats of this form are the doubles with at most 22 binary fraction
\* digits below 2^31, among them every double from 2^30 up to 2^31 (the
\* seconds of the years 2004 to 2038).
PyInt(n) == [int |-> n]
PyFloat(whole, frac) == [whole |-> whole, frac |-> frac]
FloatGrid == 2 ^ 22

\* (q + r / den) * factor^n as <<quotient, remainder>> over den, and the
\* nearest integer of such a number, ties to the even one
RECURSIVE Scaled(_, _, _, _, _)
Scaled(q, r, den, factor, n) ==
    IF n = 0 THEN <<q, r>>
    ELSE Scaled(factor * q + ((factor * r) \div den), (factor * r) % den, den, factor, n - 1)

RoundHalfEven(qr, den) ==
    IF 2 * qr[2] > den THEN qr[1] + 1
    ELSE IF 2 * qr[2] = den THEN qr[1] + (qr[1] % 2)
    ELSE qr[1]

\* response.json() on a number of upstream's JSON text: <<n>> is the
\* integer literal n, <<n, f>> the decimal literal n.f with nine fraction
\* digits f, for 2^30 <= n < 2^31 - 1: the nearest double
json_number(literal) ==
    IF Len(literal) = 1 THEN PyInt(literal[1])
    ELSE LET frac == RoundHalfEven(Scaled(0, literal[2], NANOSECONDS_PER_SECOND, 2, 22),
                                   NANOSECONDS_PER_SECOND)
         IN  IF frac = FloatGrid THEN PyFloat(literal[1] + 1, 0)
             ELSE PyFloat(literal[1], frac)

\* float(str) and int(str) of the decimal string of a whole number
RECURSIVE DecValue(_)
DecValue(str) ==
    IF str = <<>> THEN 0
    ELSE 10 * DecValue(SubSeq(str, 1, Len(str) - 1))
         + (CHOOSE d \in 0..9 : DecStr(d) = <<str[Len(str)]>>)

float_of_str(str) == PyFloat(DecValue(str), 0)

\* int(str) of a decimal string, as a nanosecond integer
int_of_str(str) ==
    IF Len(str) <= 9 THEN Ns(0, DecValue(str))
    ELSE Ns(DecValue(SubSeq(str, 1, Len(str) - 9)),
            DecValue(SubSeq(str, Len(str) - 8, Len(str))))

(* log_entry.py *)
LogEntry_to_dict(self) == [timestamp |-> self.timestamp, message |-> self.message]

\* int(data["timestamp"]) of an int is that int
LogEntry_from_dict(data) ==
    [class |-> "LogEntry", timestamp |-> data.timestamp, message |-> data.message]

LogEntry_from_loki_value(value) ==
    [class |-> "LogEntry", timestamp |-> int_of_str(value[1]), message |-> value[2]]

(* log_stream.py *)
LogStream_to_dict(self) ==
    [labels |-> self.labels,
     entries |-> [i \in 1..Len(self.entries) |-> LogEntry_to_dict(self.entries[i])]]

LogStream_from_dict(data) ==
    LET entries == DictGet(data, "entries", <<>>)
    IN  [class |-> "LogStream", labels |-> data.labels,
         entries |-> [i \in 1..Len(entries) |-> LogEntry_from_dict(entries[i])]]

\* a variant that puts the newest entry first
LogStream_from_loki_stream_reversed(stream_data) ==
    LET values == DictGet(stream_data, "values", <<>>)
    IN  [class |-> "LogStream", labels |-> DictGet(stream_data, "stream", EmptyDict),
         entries |-> [i \in 1..Len(values) |->
                         LogEntry_from_loki_value(values[Len(values) + 1 - i])]]

LogStream_from_loki_stream(stream_data) ==
    LET values == DictGet(stream_data, "values", <<>>)
    IN  [class |-> "LogStream", labels |-> DictGet(stream_data, "stream", EmptyDict),
         entries |-> [i \in 1..Len(values) |-> LogEntry_from_loki_value(values[i])]]

(* metric_sample.py *)
MetricSample_to_dict(self) == [timestamp |-> self.timestamp, value |-> self.value]

\* int(...) of an int and float(...) of a float are that int and that float
MetricSample_from_dict(data) ==
    [class |-> "MetricSample", timestamp |-> data.timestamp, value |-> data.value]

\* The difference timestamp_seconds - whole_seconds and its product with
\* 10^9 are exact in doubles: the product is frac * 5^9 / 2^13 with a
\* numerator below 2^53.
MetricSample_from_loki_value(value) ==
    LET timestamp_seconds == IF "int" \in DOMAIN value[1] THEN PyFloat(value[1].int, 0)
                             ELSE value[1]
        whole_seconds == timestamp_seconds.whole
        fractional == timestamp_seconds.frac
        nanos == RoundHalfEven(Scaled(fractional \div (2 ^ 13), fractional % (2 ^ 13),
                                      2 ^ 13, 5, 9), 2 ^ 13)
    IN  [class |-> "MetricSample",
         timestamp |-> IF nanos = NANOSECONDS_PER_SECOND THEN Ns(whole_seconds + 1, 0)
                       ELSE Ns(whole_seconds, nanos),
         value |-> float_of_str(value[2])]

(* metric_series.py *)
MetricSeries_to_dict(self) ==
    [labels |-> self.labels,
     samples |-> [i \in 1..Len(self.samples) |-> MetricSample_to_dict(self.samples[i])]]

MetricSeries_from_dict(data) ==
    LET samples == DictGet(data, "samples", <<>>)
    IN  [class |-> "MetricSeries", labels |-> data.labels,
         samples |-> [i \in 1..Len(samples) |-> MetricSample_from_dict(samples[i])]]

MetricSeries_from_loki_matrix(data) ==
    LET values == DictGet(data, "values", <<>>)
    IN  [class |-> "MetricSeries", labels |-> DictGet(data, "metric", EmptyDict),
         samples |-> [i \in 1..Len(values) |-> MetricSample_from_loki_value(values[i])]]

\* a variant that makes a sample of every element, of 0 at time 0 for an
\* element without a value
MetricSeries_from_loki_vector_always(data) ==
    LET value == DictGet(data, "value", <<>>)
    IN  [class |-> "MetricSeries", labels |-> DictGet(data, "metric", EmptyDict),
         samples |-> <<MetricSample_from_loki_value(
                           IF value # <<>> THEN value ELSE <<PyInt(0), <<"0">>>>)>>]

MetricSeries_from_loki_vector(data) ==
    LET value == DictGet(data, "value", <<>>)
    IN  [class |-> "MetricSeries", labels |-> DictGet(data, "metric", EmptyDict),
         samples |-> IF value # <<>> THEN <<MetricSample_from_loki_value(value)>> ELSE <<>>]

(* query_stats.py *)
QueryStats_to_dict(self) ==
    [bytes_processed |-> self.bytes_processed, lines_processed |-> self.lines_processed,
     exec_time_seconds |-> self.exec_time_seconds]

QueryStats_from_dict(data) ==
    [class |-> "QueryStats",
     bytes_processed |-> DictGet(data, "bytes_processed", 0),
     lines_processed |-> DictGet(data, "lines_processed", 0),
     exec_time_seconds |-> DictGet(data, "exec_time_seconds", PyFloat(0, 0))]

\* a variant that reads the summary's own names for two of the fields only
QueryStats_from_loki_stats_bytes_only(stats_data) ==
    [class |-> "QueryStats",
     bytes_processed |-> DictGet(DictGet(stats_data, "summary", EmptyDict),
                                 "totalBytesProcessed", 0),
     lines_processed |-> 0,
     exec_time_seconds |-> PyFloat(0, 0)]

QueryStats_from_loki_stats(stats_data) ==
    LET summary == DictGet(stats_data, "summary", EmptyDict)
    IN  [class |-> "QueryStats",
         bytes_processed |-> DictGet(summary, "totalBytesProcessed", 0),
         lines_processed |-> DictGet(summary, "totalLinesProcessed", 0),
         exec_time_seconds |-> DictGet(summary, "execTime", PyFloat(0, 0))]

(* query_result.py *)
QueryResult_to_dict(self) ==
    [status |-> self.status, result_type |-> self.result_type,
     streams |-> [i \in 1..Len(self.streams) |-> LogStream_to_dict(self.streams[i])],
     metric_series |->
         [i \in 1..Len(self.metric_series) |-> MetricSeries_to_dict(self.metric_series[i])],
     stats |-> IF Truthy(self.stats) THEN QueryStats_to_dict(self.stats) ELSE NoneObject]

\* a variant that gives every result the default result type
QueryResult_from_dict_default_type(data) ==
    LET streams == DictGet(data, "streams", <<>>)
        metric_series == DictGet(data, "metric_series", <<>>)
    IN  [class |-> "QueryResult", status |-> data.status,
         streams |-> [i \in 1..Len(streams) |-> LogStream_from_dict(streams[i])],
         stats |-> IF Truthy(DictGet(data, "stats", NoneObject))
                   THEN QueryStats_from_dict(data.stats) ELSE NoneObject,
         result_type |-> "streams",
         metric_series |->
             [i \in 1..Len(metric_series) |-> MetricSeries_from_dict(metric_series[i])]]

QueryResult_from_dict(data) ==
    LET streams == DictGet(data, "streams", <<>>)
        metric_series == DictGet(data, "metric_series", <<>>)
    IN  [class |-> "QueryResult", status |-> data.status,
         streams |-> [i \in 1..Len(streams) |-> LogStream_from_dict(streams[i])],
         stats |-> IF Truthy(DictGet(data, "stats", NoneObject))
                   THEN QueryStats_from_dict(data.stats) ELSE NoneObject,
         result_type |-> DictGet(data, "result_type", "streams"),
         metric_series |->
             [i \in 1..Len(metric_series) |-> MetricSeries_from_dict(metric_series[i])]]

\* a variant that takes every result that is no matrix for a vector
QueryResult_from_loki_response_vector_else(response_data) ==
    LET data == DictGet(response_data, "data", EmptyDict)
        result_list == DictGet(data, "result", <<>>)
    IN  [class |-> "QueryResult",
         status |-> DictGet(response_data, "status", "unknown"),
         streams |-> <<>>,
         stats |-> IF Truthy(DictGet(data, "stats", NoneObject))
                   THEN QueryStats_from_loki_stats(data.stats) ELSE NoneObject,
         result_type |-> DictGet(data, "resultType", "streams"),
         metric_series |->
             IF DictGet(data, "resultType", "streams") = "matrix"
             THEN [i \in 1..Len(result_list) |-> MetricSeries_from_loki_matrix(result_list[i])]
             ELSE [i \in 1..Len(result_list) |-> MetricSeries_from_loki_vector(result_list[i])]]

QueryResult_from_loki_response(response_data) ==
    LET status == DictGet(response_data, "status", "unknown")
        data == DictGet(response_data, "data", EmptyDict)
        result_type == DictGet(data, "resultType", "streams")
        result_list == DictGet(data, "result", <<>>)
        stats_data == DictGet(data, "stats", NoneObject)
    IN  [class |-> "QueryResult",
         status |-> status,
         streams |->
             IF result_type \in {"matrix", "vector"} THEN <<>>
             ELSE [i \in 1..Len(result_list) |-> LogStream_from_loki_stream(result_list[i])],
         stats |-> IF Truthy(stats_data) THEN QueryStats_from_loki_stats(stats_data)
                   ELSE NoneObject,
         result_type |-> result_type,
         metric_series |->
             IF result_type = "matrix"
             THEN [i \in 1..Len(result_list) |-> MetricSeries_from_loki_matrix(result_list[i])]
             ELSE IF result_type = "vector"
             THEN [i \in 1..Len(result_list) |-> MetricSeries_from_loki_vector(result_list[i])]
             ELSE <<>>]

---------------------------------------------------------------------------
(* Upstream Loki and the HTTP transport.                                   *)

A_web == <<"w", "e", "b">>
Apps == {A_web, <<"a", "p", "i">>}

\* what upstream can come to hold: an application under one of the
\* application labels in use, a level under one of the severity labels in use
UpstreamPairs ==
    ({APP_LABEL_NAMES[1], APP_LABEL_NAMES[6]} \X Apps)
        \cup ({SEVERITY_LABEL_NAMES[1], SEVERITY_LABEL_NAMES[4]} \X {SEVERITY_TIERS[3]})

EmptyUpstream ==
    [l \in {APP_LABEL_NAMES[i] : i \in 1..Len(APP_LABEL_NAMES)}
               \cup {SEVERITY_LABEL_NAMES[i] : i \in 1..Len(SEVERITY_LABEL_NAMES)} |-> {}]
UpstreamSize(U) == Cardinality({p \in UpstreamPairs : p[2] \in U[p[1]]})

\* An endpoint is the sequence of the pieces its path is put together from.
EP_query == <<"/loki/api/v1/query">>
EP_query_range == <<"/loki/api/v1/query_range">>
EP_labels == <<"/loki/api/v1/labels">>
EP_series == <<"/loki/api/v1/series">>

\* f"/loki/api/v1/label/{label}/values"
EP_label_values(label) == <<"/loki/api/v1/label/", label, "/values">>

\* the "data" of upstream's answer to a request, from its label values
UpstreamData(req, U) ==
    IF Len(req.endpoint) = 3
    THEN IF req.endpoint[2] \in DOMAIN U THEN U[req.endpoint[2]] ELSE {}
    ELSE IF req.endpoint = EP_labels THEN {l \in DOMAIN U : U[l] # {}}
    ELSE IF req.endpoint = EP_series THEN {p \in UpstreamPairs : p[2] \in U[p[1]]}
    ELSE [resultType |-> "streams", result |-> <<>>]

\* what the session's request() gives: an exception of requests, or a
\* response with a status code and a text.  json is what response.json()
\* does with the text: "ValueError" when it raises, else the type of the
\* value it returns, which is body.
Response(exc, status_code, text, json, body) ==
    [exc |-> exc, status_code |-> status_code, text |-> text, json |-> json, body |-> body]

UpstreamOk(req, U) ==
    Response("None", 200, "{...}", "dict",
             [status |-> "success", data |-> UpstreamData(req, U)])

ConnectionRefused == Response("ConnectionError", 0, "", "ValueError", EmptyDict)

\* a fault makes request number `at` of a call fail (no request of the
\* call, when it issues fewer); at = 0 is no fault.  The failures rotate
\* over the positions: the first request of a call fails for the
\* connection, the second with 401, the third with 500, ...
NoFault == [at |-> 0, resp |-> ConnectionRefused]
Faults ==
    LET FaultResponses ==
            <<ConnectionRefused,
              Response("None", 401, "Unauthorized", "ValueError", EmptyDict),
              Response("None", 500, "Internal Server Error", "ValueError", EmptyDict)>>
    IN  {NoFault} \cup {[at |-> k, resp |-> FaultResponses[((k - 1) % 3) + 1]] :
                            k \in 1..MaxFaultAt}


\* a variant that decodes the body before it looks at the status code
_request_json_first(response) ==
    IF response.exc # "None"
    THEN Raise(Exc("LokiConnectionError", "Request to Loki failed"))
    ELSE IF response.json = "ValueError"
    THEN Raise(Exc("LokiQueryError", "Invalid JSON response from Loki"))
    ELSE IF response.status_code \in {401, 403}
    THEN Raise(Exc("LokiAuthError", "Authentication failed: invalid credentials"))
    ELSE IF response.status_code # 200
    THEN Raise([type |-> "LokiQueryError", msg |-> "Loki query failed with status",
                status_code |-> response.status_code, text |-> response.text])
    ELSE IF response.json # "dict"
    THEN Raise(Exc("AttributeError", "object has no attribute 'get'"))
    ELSE IF "status" \in DOMAIN response.body /\ response.body.status = "error"
    THEN Raise([type |-> "LokiQueryError", msg |-> "Loki query error",
                error |-> DictGet(response.body, "error", "Unknown error")])
    ELSE Ok(response.body)

\* LokiClient._request, from the response on: classify it.  The exceptions
\* that carry values of the response hold them as fields beside the
\* message.  ConnectTimeout is a ConnectionError and a Timeout.
_request(response) ==
    IF response.exc = "SSLError"
    THEN Raise(Exc("LokiConnectionError", "SSL error connecting to Loki"))
    ELSE IF response.exc \in {"ConnectionError", "ConnectTimeout"}
    THEN Raise(Exc("LokiConnectionError", "Failed to connect to Loki"))
    ELSE IF response.exc = "Timeout"
    THEN Raise(Exc("LokiConnectionError", "Request to Loki timed out"))
    ELSE IF response.exc = "RequestException"
    THEN Raise(Exc("LokiConnectionError", "Request to Loki failed"))
    ELSE IF response.status_code = 401
    THEN Raise(Exc("LokiAuthError", "Authentication failed: invalid credentials"))
    ELSE IF response.status_code = 403
    THEN Raise(Exc("LokiAuthError", "Authorization failed: access denied"))
    ELSE IF response.status_code # 200
    THEN Raise([type |-> "LokiQueryError", msg |-> "Loki query failed with status",
                status_code |-> response.status_code, text |-> response.text])
    ELSE IF response.json = "ValueError"
    THEN Raise(Exc("LokiQueryError", "Invalid JSON response from Loki"))
    ELSE IF response.json # "dict"
    THEN Raise(Exc("AttributeError", "object has no attribute 'get'"))
    ELSE IF "status" \in DOMAIN response.body /\ response.body.status = "error"
    THEN Raise([type |-> "LokiQueryError", msg |-> "Loki query error",
                error |-> DictGet(response.body, "error", "Unknown error")])
    ELSE Ok(response.body)

LokiErrors == {"LokiConnectionError", "LokiAuthError", "LokiQueryError"}

---------------------------------------------------------------------------
(* The client during one call: its fields, the Sessions the call has       *)
(* constructed and the requests it has issued so far.  An operation maps   *)
(* such a state to [cs, out].                                              *)

Result(cs, out) == [cs |-> cs, out |-> out]
Raised(r) == r.out.exc # NoExc

\* a variant that constructs a Session for every request
session_renewed(cs) == [cs EXCEPT !.session = 1, !.created = cs.created + 1]

\* the session property: construct the Session on first use
session(cs) ==
    IF cs.session = 0
    THEN [cs EXCEPT !.session = 1, !.created = cs.created + 1]
    ELSE cs

\* self.session.request(...) on the session c1, and _request's handling
\* of the response.  The call's list of requests holds, with each
\* request, the type of the exception that _request raised for it.
Transmit(c1, req, U, fault) ==
    LET out == _request(IF fault.at = Len(c1.reqs) + 1 THEN fault.resp
                        ELSE UpstreamOk(req, U))
    IN  Result([c1 EXCEPT !.reqs = Append(@, [method |-> req.method,
                                              endpoint |-> req.endpoint,
                                              params |-> req.params,
                                              raised |-> out.exc.type])],
               out)

Send(cs, endpoint, params, U, fault) ==
    Transmit(session(cs), [method |-> "GET", endpoint |-> endpoint, params |-> params],
             U, fault)

\* params with "start" and "end" added when given
WithStartEnd(params, start, end) ==
    LET p1 == IF start # None THEN DictSet(params, "start", NsStr(start)) ELSE params
    IN  IF end # None THEN DictSet(p1, "end", NsStr(end)) ELSE p1

\* params if params else None: the code sends None instead of an empty dict
OrNone(params) == IF DOMAIN params = {} THEN [None |-> TRUE] ELSE params

\* return data.get("data", []) of the answer r of _request
DataOf(r) == IF Raised(r) THEN r ELSE Result(r.cs, Ok(DictGet(r.out.val, "data", {})))

get_labels(cs, start, end, U, fault) ==
    DataOf(Send(cs, EP_labels, OrNone(WithStartEnd(EmptyDict, start, end)), U, fault))

get_label_values(cs, label, start, end, U, fault) ==
    DataOf(Send(cs, EP_label_values(label),
                OrNone(WithStartEnd(EmptyDict, start, end)), U, fault))

get_series(cs, match, start, end, U, fault) ==
    DataOf(Send(cs, EP_series, WithStartEnd("match[]" :> match, start, end), U, fault))

\* one turn of _find_app_label's loop, for APP_LABEL_NAMES[i]: a result, or
\* out = Continue to go on with the next label name
Continue == [exc |-> Exc("Continue", ""), val |-> None]

\* a variant that returns the label it finds without keeping it
AppLabelProbed_unkept(r, app_value, label_name) ==
    IF Raised(r) THEN r
    ELSE IF app_value \in r.out.val THEN Result(r.cs, Ok(label_name))
    ELSE Result(r.cs, Continue)

\* a variant that goes on with the next label name when the request fails
AppLabelProbed_skipping(r, app_value, label_name) ==
    IF Raised(r) THEN Result(r.cs, Continue)
    ELSE IF app_value \in r.out.val
    THEN Result([r.cs EXCEPT !.app_cache = DictSet(@, app_value, label_name)],
                Ok(label_name))
    ELSE Result(r.cs, Continue)

\* the turn from the answer r of get_label_values(label_name) on
AppLabelProbed(r, app_value, label_name) ==
    IF Raised(r) THEN r
    ELSE IF app_value \in r.out.val
    THEN Result([r.cs EXCEPT !.app_cache = DictSet(@, app_value, label_name)],
                Ok(label_name))
    ELSE Result(r.cs, Continue)

AppLabelStep(cs, app_value, i, U, fault) ==
    AppLabelProbed(get_label_values(cs, APP_LABEL_NAMES[i], None, None, U, fault),
                   app_value, APP_LABEL_NAMES[i])

\* a variant that remembers, under the empty name, that nothing was found
AppLabelNotFound_remembered(cs) ==
    Result([cs EXCEPT !.app_cache = DictSet(@, <<>>, <<>>)],
           Raise(Exc("ValueError", "Could not find app in any common label")))

\* the loop is exhausted
AppLabelNotFound(cs) ==
    Result(cs, Raise(Exc("ValueError", "Could not find app in any common label")))

RECURSIVE AppLabelLoop(_, _, _, _, _)
AppLabelNext(r, app_value, i, U, fault) ==
    IF r.out = Continue THEN AppLabelLoop(r.cs, app_value, i + 1, U, fault) ELSE r

AppLabelLoop(cs, app_value, i, U, fault) ==
    IF i > Len(APP_LABEL_NAMES)
    THEN AppLabelNotFound(cs)
    ELSE AppLabelNext(AppLabelStep(cs, app_value, i, U, fault), app_value, i, U, fault)

\* a variant that does not look into the cache
_find_app_label_uncached(cs, app_value, U, fault) ==
    AppLabelLoop(cs, app_value, 1, U, fault)

_find_app_label(cs, app_value, U, fault) ==
    IF app_value \in DOMAIN cs.app_cache
    THEN Result(cs, Ok(cs.app_cache[app_value]))
    ELSE AppLabelLoop(cs, app_value, 1, U, fault)

\* a variant that returns the label it finds without keeping it
SeverityLabelProbed_unkept(r, label_name) ==
    IF Raised(r) THEN r
    ELSE IF r.out.val # {} THEN Result(r.cs, Ok(label_name))
    ELSE Result(r.cs, Continue)

\* a variant that asks for the values of every label name
SeverityLabelProbed_exhaustive(r, label_name) ==
    IF Raised(r) THEN r
    ELSE IF r.out.val # {} /\ label_name = SEVERITY_LABEL_NAMES[Len(SEVERITY_LABEL_NAMES)]
    THEN Result([r.cs EXCEPT !.sev_cache = label_name], Ok(label_name))
    ELSE Result(r.cs, Continue)

\* one turn of _find_severity_label's loop, from the answer r on
SeverityLabelProbed(r, label_name) ==
    IF Raised(r) THEN r
    ELSE IF r.out.val # {}
    THEN Result([r.cs EXCEPT !.sev_cache = label_name], Ok(label_name))
    ELSE Result(r.cs, Continue)

SeverityLabelStep(cs, i, U, fault) ==
    SeverityLabelProbed(get_label_values(cs, SEVERITY_LABEL_NAMES[i], None, None, U, fault),
                        SEVERITY_LABEL_NAMES[i])

\* a variant that remembers, with an empty name, that nothing was found
SeverityLabelNotFound_remembered(cs) == Result([cs EXCEPT !.sev_cache = <<>>], Ok(None))

\* the loop is exhausted: return None
SeverityLabelNotFound(cs) == Result(cs, Ok(None))

RECURSIVE SeverityLabelLoop(_, _, _, _)
SeverityLabelNext(r, i, U, fault) ==
    IF r.out = Continue THEN SeverityLabelLoop(r.cs, i + 1, U, fault) ELSE r

SeverityLabelLoop(cs, i, U, fault) ==
    IF i > Len(SEVERITY_LABEL_NAMES)
    THEN SeverityLabelNotFound(cs)
    ELSE SeverityLabelNext(SeverityLabelStep(cs, i, U, fault), i, U, fault)

_find_severity_label(cs, U, fault) ==
    IF cs.sev_cache # None
    THEN Result(cs, Ok(cs.sev_cache))
    ELSE SeverityLabelLoop(cs, 1, U, fault)

\* a variant that drops the discovered labels with the session
close_forgetting(cs) == [cs EXCEPT !.session = 0, !.app_cache = EmptyDict, !.sev_cache = None]

\* close(): drop the session if there is one
close(cs) == IF cs.session # 0 THEN [cs EXCEPT !.session = 0] ELSE cs

---------------------------------------------------------------------------
(* client.py: _is_metric_query, _resolve_since, query and query_range.     *)


\* the prefixes, in the order of the source
metric_prefixes ==
    <<<<"c", "o", "u", "n", "t", "_", "o", "v", "e", "r", "_", "t", "i", "m", "e">>,
      <<"r", "a", "t", "e">>,
      <<"b", "y", "t", "e", "s", "_", "o", "v", "e", "r", "_", "t", "i", "m", "e">>,
      <<"b", "y", "t", "e", "s", "_", "r", "a", "t", "e">>,
      <<"s", "u", "m">>,
      <<"a", "v", "g">>,
      <<"m", "i", "n">>,
      <<"m", "a", "x">>,
      <<"s", "t", "d", "d", "e", "v">>,
      <<"s", "t", "d", "v", "a", "r">>,
      <<"q", "u", "a", "n", "t", "i", "l", "e", "_", "o", "v", "e", "r", "_", "t", "i", "m", "e">>,
      <<"f", "i", "r", "s", "t", "_", "o", "v", "e", "r", "_", "t", "i", "m", "e">>,
      <<"l", "a", "s", "t", "_", "o", "v", "e", "r", "_", "t", "i", "m", "e">>,
      <<"a", "b", "s", "e", "n", "t", "_", "o", "v", "e", "r", "_", "t", "i", "m", "e">>,
      <<"r", "a", "t", "e", "_", "c", "o", "u", "n", "t", "e", "r">>,
      <<"t", "o", "p", "k">>,
      <<"b", "o", "t", "t", "o", "m", "k">>,
      <<"s", "o", "r", "t">>,
      <<"s", "o", "r", "t", "_", "d", "e", "s", "c">>,
      <<"l", "a", "b", "e", "l", "_", "r", "e", "p", "l", "a", "c", "e">>,
      <<"l", "a", "b", "e", "l", "_", "j", "o", "i", "n">>>>

\* str.startswith
StartsWith(str, prefix) ==
    Len(str) >= Len(prefix) /\ SubSeq(str, 1, Len(prefix)) = prefix

\* a variant that takes the expression as it is written
_is_metric_query_unstripped(logql) ==
    \E i \in 1..Len(metric_prefixes) :
        \/ StartsWith(logql, metric_prefixes[i] \o <<"(">>)
        \/ StartsWith(logql, metric_prefixes[i] \o <<" ", "(">>)

_is_metric_query(logql) ==
    LET stripped == Lower(Strip(logql))
    IN  \E i \in 1..Len(metric_prefixes) :
            \/ StartsWith(stripped, metric_prefixes[i] \o <<"(">>)
            \/ StartsWith(stripped, metric_prefixes[i] \o <<" ", "(">>)

\* A call's keyword arguments are a dict of the arguments passed; an
\* argument left out has its default (None for the optional ones).
Given(kw, name) == name \in DOMAIN kw

HOURS_PER_DAY == 24
DEFAULT_LOOKBACK_DAYS == 30
QUERY_DEFAULT_LIMIT == 100
QUERY_RANGE_DEFAULT_LIMIT == 1000
S_backward == <<"b", "a", "c", "k", "w", "a", "r", "d">>

\* a variant that looks at since_hours first
_resolve_since_hours_first(kw, now) ==
    IF Given(kw, "since_hours")
    THEN <<NsMinus(now, NsTimes(kw.since_hours, NANOSECONDS_PER_HOUR)), now>>
    ELSE IF Given(kw, "since_minutes")
    THEN <<NsMinus(now, NsTimes(kw.since_minutes, NANOSECONDS_PER_MINUTE)), now>>
    ELSE IF Given(kw, "since_days")
    THEN <<NsMinus(now, NsTimes(HOURS_PER_DAY,
                                NsTimes(kw.since_days, NANOSECONDS_PER_HOUR))), now>>
    ELSE None

\* _resolve_since at the time now_ns() = now: <<start, end>>, or None
_resolve_since(kw, now) ==
    LET end == now
    IN  IF Given(kw, "since_minutes")
        THEN <<NsMinus(end, NsTimes(kw.since_minutes, NANOSECONDS_PER_MINUTE)), end>>
        ELSE IF Given(kw, "since_hours")
        THEN <<NsMinus(end, NsTimes(kw.since_hours, NANOSECONDS_PER_HOUR)), end>>
        ELSE IF Given(kw, "since_days")
        THEN <<NsMinus(end, NsTimes(HOURS_PER_DAY,
                                    NsTimes(kw.since_days, NANOSECONDS_PER_HOUR))), end>>
        ELSE None

\* return QueryResult.from_loki_response(data) of the answer r of _request
AsQueryResult(r) == IF Raised(r) THEN r ELSE Result(r.cs, Ok(QueryResult_from_loki_response(r.out.val)))

\* a variant that sends a metric expression as an instant query
query_range_classifying(cs, logql, start, end, limit, direction, U, fault) ==
    IF _is_metric_query(logql)
    THEN AsQueryResult(Send(cs, EP_query, [query |-> logql, limit |-> limit], U, fault))
    ELSE AsQueryResult(Send(cs, EP_query_range,
                            [query |-> logql, start |-> NsStr(start), end |-> NsStr(end),
                             limit |-> limit, direction |-> direction], U, fault))

query_range(cs, logql, start, end, limit, direction, U, fault) ==
    AsQueryResult(Send(cs, EP_query_range,
                       [query |-> logql, start |-> NsStr(start), end |-> NsStr(end),
                        limit |-> limit, direction |-> direction], U, fault))

\* f'{label_name}="{app}"' and f', {sev_label}=~"{regex}"'
AppSelector(label_name, app) == label_name \o <<"=", "\"">> \o app \o <<"\"">>

\* a variant that matches the regex as an exact value
SeverityMatcher_exact(sev_label, regex) ==
    <<",", " ">> \o sev_label \o <<"=", "\"">> \o regex \o <<"\"">>

SeverityMatcher(sev_label, regex) ==
    <<",", " ">> \o sev_label \o <<"=", "~", "\"">> \o regex \o <<"\"">>

\* query(), lines 322-330: the expression of an app query.  The result
\* holds the expression, or the exception that ended the call.
WithRegex(r2, selector, regex) ==
    IF regex.exc # NoExc THEN Result(r2.cs, regex)
    ELSE Result(r2.cs, Ok(<<"{">> \o selector \o SeverityMatcher(r2.out.val, regex.val)
                          \o <<"}">>))

\* a variant that builds the regex before it looks at the severity label
WithSeverityLabel_eager(r2, selector, kw) ==
    IF Raised(r2) THEN r2
    ELSE IF _build_severity_regex(kw.severity).exc # NoExc
    THEN Result(r2.cs, _build_severity_regex(kw.severity))
    ELSE IF r2.out.val = None \/ r2.out.val = <<>>
    THEN Result(r2.cs, Ok(<<"{">> \o selector \o <<"}">>))
    ELSE WithRegex(r2, selector, _build_severity_regex(kw.severity))

WithSeverityLabel(r2, selector, kw) ==
    IF Raised(r2) THEN r2
    ELSE IF r2.out.val = None \/ r2.out.val = <<>>
    THEN Result(r2.cs, Ok(<<"{">> \o selector \o <<"}">>))
    ELSE WithRegex(r2, selector, _build_severity_regex(kw.severity))

\* a variant that sends the query before it looks for the severity label
WithAppLabel_query_first(r1, kw, U, fault) ==
    IF Raised(r1) THEN r1
    ELSE IF ~Given(kw, "severity")
    THEN Result(r1.cs, Ok(<<"{">> \o AppSelector(r1.out.val, kw.app) \o <<"}">>))
    ELSE WithSeverityLabel(
             _find_severity_label(
                 Send(r1.cs, EP_query,
                      [query |-> <<"{">> \o AppSelector(r1.out.val, kw.app) \o <<"}">>,
                       limit |-> QUERY_DEFAULT_LIMIT], U, NoFault).cs,
                 U, fault),
             AppSelector(r1.out.val, kw.app), kw)

WithAppLabel(r1, kw, U, fault) ==
    IF Raised(r1) THEN r1
    ELSE IF ~Given(kw, "severity")
    THEN Result(r1.cs, Ok(<<"{">> \o AppSelector(r1.out.val, kw.app) \o <<"}">>))
    ELSE WithSeverityLabel(_find_severity_label(r1.cs, U, fault),
                           AppSelector(r1.out.val, kw.app), kw)

AppLogql(cs, kw, U, fault) == WithAppLabel(_find_app_label(cs, kw.app, U, fault), kw, U, fault)

\* query(), lines 341-345: the window of the range query
TimeRange(since, now) ==
    IF since = None
    THEN <<NsMinus(now, NsTimes(DEFAULT_LOOKBACK_DAYS * HOURS_PER_DAY,
                                NANOSECONDS_PER_HOUR)), now>>
    ELSE since

InWindow(cs, logql, time_range, limit, U, fault) ==
    query_range(cs, logql, time_range[1], time_range[2], limit, S_backward, U, fault)

\* a variant that sends every metric expression as an instant query
Dispatch_by_expression(cs, logql, kw, now, U, fault) ==
    IF _is_metric_query(logql)
    THEN AsQueryResult(Send(cs, EP_query,
                            [query |-> logql,
                             limit |-> DictGet(kw, "limit", QUERY_DEFAULT_LIMIT)], U, fault))
    ELSE InWindow(cs, logql, TimeRange(_resolve_since(kw, now), now),
                  DictGet(kw, "limit", QUERY_DEFAULT_LIMIT), U, fault)

\* query(), lines 332-353: instant query, or range query over the window
Dispatch(cs, logql, kw, now, U, fault) ==
    LET has_since == \E name \in {"since_minutes", "since_hours", "since_days"} :
                         Given(kw, name)
        limit == DictGet(kw, "limit", QUERY_DEFAULT_LIMIT)
    IN  IF _is_metric_query(logql) /\ ~has_since
        THEN AsQueryResult(Send(cs, EP_query, [query |-> logql, limit |-> limit], U, fault))
        ELSE InWindow(cs, logql, TimeRange(_resolve_since(kw, now), now), limit, U, fault)

Dispatched(r, kw, now, U, fault) ==
    IF Raised(r) THEN r ELSE Dispatch(r.cs, r.out.val, kw, now, U, fault)

\* a variant that rejects a call with either argument
query_either(cs, kw, now, U, fault) ==
    IF Given(kw, "logql") \/ Given(kw, "app")
    THEN Result(cs, Raise(Exc("ValueError", "Cannot combine 'logql' with 'app'")))
    ELSE Result(cs, Raise(Exc("ValueError", "Must provide either 'logql' or 'app'")))

\* a variant that reads the severity of a call with an expression too
query_severity_read(cs, kw, now, U, fault) ==
    IF Given(kw, "logql") /\ Given(kw, "app")
    THEN Result(cs, Raise(Exc("ValueError", "Cannot combine 'logql' with 'app'")))
    ELSE IF ~Given(kw, "logql") /\ ~Given(kw, "app")
    THEN Result(cs, Raise(Exc("ValueError", "Must provide either 'logql' or 'app'")))
    ELSE IF Given(kw, "app")
    THEN Dispatched(AppLogql(cs, kw, U, fault), kw, now, U, fault)
    ELSE IF Given(kw, "severity") /\ _build_severity_regex(kw.severity).exc # NoExc
    THEN Result(cs, _build_severity_regex(kw.severity))
    ELSE Dispatch(cs, kw.logql, kw, now, U, fault)

\* a variant that looks for the application's label before it tests the
\* arguments
query_late_test(cs, kw, now, U, fault) ==
    IF Given(kw, "logql") /\ Given(kw, "app")
    THEN Result(_find_app_label(cs, kw.app, U, fault).cs,
                Raise(Exc("ValueError", "Cannot combine 'logql' with 'app'")))
    ELSE IF ~Given(kw, "logql") /\ ~Given(kw, "app")
    THEN Result(cs, Raise(Exc("ValueError", "Must provide either 'logql' or 'app'")))
    ELSE IF Given(kw, "app")
    THEN Dispatched(AppLogql(cs, kw, U, fault), kw, now, U, fault)
    ELSE Dispatch(cs, kw.logql, kw, now, U, fault)

query(cs, kw, now, U, fault) ==
    IF Given(kw, "logql") /\ Given(kw, "app")
    THEN Result(cs, Raise(Exc("ValueError", "Cannot combine 'logql' with 'app'")))
    ELSE IF ~Given(kw, "logql") /\ ~Given(kw, "app")
    THEN Result(cs, Raise(Exc("ValueError", "Must provide either 'logql' or 'app'")))
    ELSE IF Given(kw, "app")
    THEN Dispatched(AppLogql(cs, kw, U, fault), kw, now, U, fault)
    ELSE Dispatch(cs, kw.logql, kw, now, U, fault)

---------------------------------------------------------------------------
(* Inputs of _build_severity_regex: every tier and some other words, in    *)
(* three spellings, with up to MaxPad whitespace characters on each side.  *)

S_bogus == <<"b", "o", "g", "u", "s">>

SeverityWords ==
    {SEVERITY_TIERS[i] : i \in 1..Len(SEVERITY_TIERS)}
        \cup {<<"u", "n", "k", "n", "o", "w", "n">>, S_bogus, <<"e", "r", "r">>,
              <<"w", "a", "r", "n", " ", "i", "n", "g">>,
              <<"f", "a", "t", "a", "l", "|", "c", "r", "i", "t", "i", "c", "a", "l">>,
              <<>>}

RECURSIVE Pads(_)
Pads(n) ==
    IF n = 0 THEN {<<>>}
    ELSE Pads(n - 1) \cup {<<c>> \o p : c \in {" ", "\t"}, p \in {q \in Pads(n - 1) : Len(q) = n - 1}}

SeverityInputs ==
    {l \o w \o r : l \in Pads(MaxPad), r \in Pads(MaxPad),
                   w \in UNION {{x, Upper(x), Capitalize(x)} : x \in SeverityWords}}

NotRun == [exc |-> Exc("NotRun", ""), val |-> None]

---------------------------------------------------------------------------
(* The specification of _build_severity_regex alone.                       *)

NoCall == [op |-> "none"]

IdleRest ==
    /\ labelValues = EmptyUpstream
    /\ _session = 0
    /\ _app_label_cache = <<>>
    /\ _severity_label_cache = None
    /\ last = NoCall
    /\ thr = <<>>
    /\ dirty = FALSE

SeverityInit ==
    /\ sevIn \in SeverityInputs
    /\ sevOut = NotRun
    /\ input = <<>>
    /\ output = NotRun
    /\ IdleRest

BuildSeverityRegex ==
    /\ sevOut = NotRun
    /\ sevOut' = _build_severity_regex(sevIn)
    /\ UNCHANGED <<sevIn, labelValues, clientVars, last, concVars, fnVars>>

SeverityNext == BuildSeverityRegex

SpecSeverity == SeverityInit /\ [][SeverityNext]_vars

---------------------------------------------------------------------------
(* The client used by one caller: every public operation is one step, and  *)
(* `last` holds the call that has just returned until the caller goes on.  *)
(* Upstream gains and loses label values between the calls.                *)

E_selector == <<"{", "j", "o", "b", "=", "\"", "a", "p", "i", "\"", "}">>
Exprs ==
    {E_selector,
     <<"r", "a", "t", "e", "(", "{", "j", "o", "b", "=", "\"", "a", "p", "i", "\"", "}",
       "[", "5", "m", "]", ")">>}

Severities == {SEVERITY_TIERS[6], <<" ", "W", "a", "r", "n", "i", "n", "g">>, S_bogus}

Sinces ==
    {EmptyDict, [since_minutes |-> 10, since_hours |-> 2, since_days |-> 3],
     [since_hours |-> 2, since_days |-> 3], [since_days |-> 3], [since_minutes |-> 0]}

\* the readings of the clock
Nows == {Ns(1704067200, 500000000)}

\* the keyword arguments query() is called with
QueryKwargs ==
    {[app |-> a] : a \in Apps}
        \cup {[app |-> a, severity |-> sv] : a \in Apps, sv \in Severities}
        \cup {[logql |-> e] @@ since : e \in Exprs, since \in Sinces}
        \cup {[logql |-> E_selector, severity |-> S_bogus]}
        \cup {[app |-> A_web, since_minutes |-> 10, limit |-> 5]}
        \cup {[logql |-> E_selector, app |-> A_web], EmptyDict, [severity |-> SEVERITY_TIERS[6]]}

Init ==
    /\ labelValues = EmptyUpstream
    /\ _session = 0
    /\ _app_label_cache = EmptyDict
    /\ _severity_label_cache = None
    /\ last = NoCall
    /\ thr = <<>>
    /\ dirty = FALSE
    /\ sevIn = <<>>
    /\ sevOut = NotRun
    /\ input = <<>>
    /\ output = NotRun

\* the client as a call finds it
Self ==
    [session |-> _session, created |-> 0, app_cache |-> _app_label_cache,
     sev_cache |-> _severity_label_cache, reqs |-> <<>>]

\* a call returns r: the client's fields and `last` after it
Returns(op, args, r) ==
    /\ last = NoCall
    /\ _session' = r.cs.session
    /\ _app_label_cache' = r.cs.app_cache
    /\ _severity_label_cache' = r.cs.sev_cache
    /\ last' = [op |-> op, args |-> args, out |-> r.out, reqs |-> r.cs.reqs,
                 created |-> r.cs.created]
    /\ UNCHANGED <<labelValues, concVars, sevVars, fnVars>>

FindAppLabel(app_value) ==
    \E fault \in Faults :
        Returns("_find_app_label", [app_value |-> app_value],
                _find_app_label(Self, app_value, labelValues, fault))

FindSeverityLabel ==
    \E fault \in Faults :
        Returns("_find_severity_label", EmptyDict,
                _find_severity_label(Self, labelValues, fault))

Query(kw, now) ==
    \E fault \in Faults :
        Returns("query", kw, query(Self, kw, now, labelValues, fault))

QueryRange(logql, start, end, limit, direction) ==
    \E fault \in Faults :
        Returns("query_range",
                [logql |-> logql, start |-> start, end |-> end, limit |-> limit,
                 direction |-> direction],
                query_range(Self, logql, start, end, limit, direction, labelValues, fault))

GetLabels(start, end) ==
    \E fault \in Faults :
        Returns("get_labels", [start |-> start, end |-> end],
                get_labels(Self, start, end, labelValues, fault))

GetLabelValues(label, start, end) ==
    \E fault \in Faults :
        Returns("get_label_values", [label |-> label, start |-> start, end |-> end],
                get_label_values(Self, label, start, end, labelValues, fault))

GetSeries(match, start, end) ==
    \E fault \in Faults :
        Returns("get_series", [match |-> match, start |-> start, end |-> end],
                get_series(Self, match, start, end, labelValues, fault))

Close == Returns("close", EmptyDict, Result(close(Self), Ok(None)))

\* __exit__ of the context manager (__enter__ returns the client as it is)
Exit == Returns("__exit__", EmptyDict, Result(close(Self), Ok(None)))

\* the caller takes the result and goes on
Return ==
    /\ last # NoCall
    /\ last' = NoCall
    /\ UNCHANGED <<labelValues, clientVars, concVars, sevVars, fnVars>>

\* LokiClient(...): the caller replaces the client by a new one
NewClient ==
    /\ last = NoCall
    /\ <<_session, _app_label_cache, _severity_label_cache>> # <<0, EmptyDict, None>>
    /\ _session' = 0
    /\ _app_label_cache' = EmptyDict
    /\ _severity_label_cache' = None
    /\ UNCHANGED <<labelValues, last, concVars, sevVars, fnVars>>

\* logs with label = value arrive upstream
Ingest(label, value) ==
    /\ last = NoCall
    /\ value \notin labelValues[label]
    /\ UpstreamSize(labelValues) < MaxUpstream
    /\ labelValues' = [labelValues EXCEPT ![label] = @ \cup {value}]
    /\ UNCHANGED <<clientVars, last, concVars, sevVars, fnVars>>

\* the last logs with label = value pass upstream's retention
Expire(label, value) ==
    /\ last = NoCall
    /\ value \in labelValues[label]
    /\ labelValues' = [labelValues EXCEPT ![label] = @ \ {value}]
    /\ UNCHANGED <<clientVars, last, concVars, sevVars, fnVars>>

\* the window of a direct range query
RangeStart == Ns(1704060000, 0)

Next ==
    \/ \E a \in Apps : FindAppLabel(a)
    \/ FindSeverityLabel
    \/ \E kw \in QueryKwargs, now \in Nows : Query(kw, now)
    \/ \E e \in Exprs, now \in Nows :
           \/ QueryRange(e, RangeStart, now, QUERY_RANGE_DEFAULT_LIMIT, S_backward)
           \/ QueryRange(e, RangeStart, now, 5, <<"f", "o", "r", "w", "a", "r", "d">>)
    \/ GetLabels(None, None)
    \/ \E now \in Nows : GetLabels(RangeStart, now)
    \/ \E l \in {APP_LABEL_NAMES[6], SEVERITY_LABEL_NAMES[1]} : GetLabelValues(l, None, None)
    \/ \E now \in Nows : GetLabelValues(APP_LABEL_NAMES[6], RangeStart, now)
    \/ GetSeries(<<E_selector>>, None, None)
    \/ Close
    \/ Exit
    \/ Return
    \/ NewClient
    \/ \E p \in UpstreamPairs : Ingest(p[1], p[2])
    \/ \E p \in UpstreamPairs : Expire(p[1], p[2])

Spec == Init /\ [][Next]_vars

---------------------------------------------------------------------------
(* The client shared by two threads that make the same first label lookup  *)
(* without synchronization.  A thread's steps are the test of the cache    *)
(* and then one turn of the loop each: the request for a label's values,   *)
(* the test of the values and the write to the cache.  Other threads and   *)
(* upstream act between the steps.                                         *)

Threads == {"t1", "t2"}

\* the lookup both threads make
ConcCalls ==
    {[op |-> "_find_app_label", app_value |-> a] : a \in Apps}
        \cup {[op |-> "_find_severity_label"]}

ConcInit ==
    /\ labelValues = EmptyUpstream
    /\ _session = 0
    /\ _app_label_cache = EmptyDict
    /\ _severity_label_cache = None
    /\ last = NoCall
    /\ thr \in {[t \in Threads |-> [pc |-> "idle", call |-> c, i |-> 0, out |-> NotRun,
                                    reqs |-> 0]] : c \in ConcCalls}
    /\ dirty = FALSE
    /\ sevIn = <<>>
    /\ sevOut = NotRun
    /\ input = <<>>
    /\ output = NotRun

Started == \E t \in Threads : thr[t].pc # "idle"
AllDone == \A t \in Threads : thr[t].pc = "done"

\* lines 249-250 and 272-273: the thread enters the call and tests the cache
Enter(t) ==
    /\ thr[t].pc = "idle"
    /\ thr' = [thr EXCEPT ![t] =
                 IF @.call.op = "_find_app_label"
                 THEN IF @.call.app_value \in DOMAIN _app_label_cache
                      THEN [@ EXCEPT !.pc = "done",
                                     !.out = Ok(_app_label_cache[thr[t].call.app_value])]
                      ELSE [@ EXCEPT !.pc = "probing", !.i = 1]
                 ELSE IF _severity_label_cache # None
                      THEN [@ EXCEPT !.pc = "done", !.out = Ok(_severity_label_cache)]
                      ELSE [@ EXCEPT !.pc = "probing", !.i = 1]]
    /\ UNCHANGED <<labelValues, clientVars, last, dirty, sevVars, fnVars>>

\* turn i of the loop of the call
Turn(call, cs, i, U, fault) ==
    IF call.op = "_find_app_label"
    THEN AppLabelStep(cs, call.app_value, i, U, fault)
    ELSE SeverityLabelStep(cs, i, U, fault)

\* the loop ends after the turn for the last name
Ended(call, r, i) ==
    IF r.out # Continue THEN r
    ELSE IF call.op = "_find_app_label"
    THEN IF i = Len(APP_LABEL_NAMES) THEN AppLabelNotFound(r.cs) ELSE r
    ELSE IF i = Len(SEVERITY_LABEL_NAMES) THEN SeverityLabelNotFound(r.cs) ELSE r

\* the thread has made a turn with the result r
Probed(t, r) ==
    /\ _session' = r.cs.session
    /\ _app_label_cache' = r.cs.app_cache
    /\ _severity_label_cache' = r.cs.sev_cache
    /\ thr' = [thr EXCEPT ![t] =
                 IF r.out = Continue
                 THEN [@ EXCEPT !.i = @ + 1, !.reqs = @ + Len(r.cs.reqs)]
                 ELSE [@ EXCEPT !.pc = "done", !.out = r.out, !.reqs = @ + Len(r.cs.reqs)]]
    /\ UNCHANGED <<labelValues, last, dirty, sevVars, fnVars>>

\* a turn's request goes through or finds no connection
Probe(t) ==
    /\ thr[t].pc = "probing"
    /\ \E fault \in {NoFault, [at |-> 1, resp |-> ConnectionRefused]} :
           Probed(t, Ended(thr[t].call,
                           Turn(thr[t].call, Self, thr[t].i, labelValues, fault),
                           thr[t].i))

\* upstream's label values change; dirty when a call was under way
ConcIngest(label, value) ==
    /\ ~AllDone
    /\ value \notin labelValues[label]
    /\ UpstreamSize(labelValues) < MaxUpstream
    /\ labelValues' = [labelValues EXCEPT ![label] = @ \cup {value}]
    /\ dirty' = (dirty \/ Started)
    /\ UNCHANGED <<clientVars, last, thr, sevVars, fnVars>>

ConcExpire(label, value) ==
    /\ ~AllDone
    /\ value \in labelValues[label]
    /\ labelValues' = [labelValues EXCEPT ![label] = @ \ {value}]
    /\ dirty' = (dirty \/ Started)
    /\ UNCHANGED <<clientVars, last, thr, sevVars, fnVars>>

ConcNext ==
    \/ \E t \in Threads : Enter(t)
    \/ \E t \in Threads : Probe(t)
    \/ \E p \in UpstreamPairs : ConcIngest(p[1], p[2])
    \/ \E p \in UpstreamPairs : ConcExpire(p[1], p[2])

SpecConc == ConcInit /\ [][ConcNext]_vars

---------------------------------------------------------------------------
(* The functions that read no state of the client, each applied alone to   *)
(* one input: _is_metric_query, QueryResult.from_loki_response,            *)
(* MetricSample.from_loki_value on a decoded JSON number, and to_dict      *)
(* followed by from_dict of each class.                                    *)

\* each prefix followed by "(", by " (" and by other things, in upper
\* case, padded, and after the start of the string; and no prefix at all
MetricInputs ==
    LET tail == <<"{", "}", ")">>
    IN  UNION {{p \o <<"(">> \o tail, p \o <<" ", "(">> \o tail,
                p \o <<" ", " ", "(">> \o tail, p, p \o tail,
                p \o <<" ", "b", "y", " ", "(">> \o tail,
                Upper(p) \o <<" ", "(">> \o tail,
                <<"{">> \o p \o <<"(">> \o tail}
               \cup {l \o p \o <<"(">> \o r : l \in Pads(MaxPad), r \in Pads(MaxPad)}
               : p \in {metric_prefixes[i] : i \in 1..Len(metric_prefixes)}}
            \cup {<<>>, <<" ">>, <<"\t", "\n">>, E_selector}

\* the result elements of each shape: with and without labels, values in
\* no order and repeated, a vector's value present, empty and absent
StreamElements ==
    LET t1 == <<"1", "7", "0", "4", "0", "6", "7", "2", "0", "0",
                "0", "0", "0", "0", "0", "0", "0", "0", "0">>
        t2 == <<"1", "7", "0", "4", "0", "6", "7", "2", "6", "0",
                "1", "2", "3", "4", "5", "6", "7", "8", "9">>
    IN  {[stream |-> [app |-> "a"],
          values |-> <<<<t2, "second">>, <<t1, "first">>, <<t1, "first">>>>],
         [stream |-> [app |-> "b"]],
         [values |-> <<<<t1, "first">>>>]}

MatrixElements ==
    {[metric |-> [app |-> "a"],
      values |-> <<<<PyInt(1704067200), <<"1", "5", "0">>>>,
                   <<PyInt(1704067260), <<"1", "7", "5">>>>>>],
     [metric |-> [app |-> "b"],
      values |-> <<<<PyFloat(1704067260, FloatGrid \div 2), <<"7">>>>,
                   <<PyInt(1704067200), <<"1", "5", "0">>>>>>],
     [metric |-> [app |-> "c"]]}

\* the responses: with a result of each type, of an unknown type and of
\* none, with and without a status; data.stats absent, with a whole
\* summary, with a part of one and without a summary
Responses ==
    LET VectorElements ==
            {[metric |-> [app |-> "x"],
              value |-> <<PyFloat(1704067200, FloatGrid \div 2), <<"4", "2">>>>],
             [metric |-> [app |-> "y"], value |-> <<>>],
             [metric |-> [app |-> "z"]]}
        StatsData ==
            {EmptyDict,
             [stats |-> [summary |-> [totalBytesProcessed |-> 2048,
                                      totalLinesProcessed |-> 17,
                                      execTime |-> PyFloat(0, FloatGrid \div 4)]]],
             [stats |-> [summary |-> [totalLinesProcessed |-> 17]]],
             [stats |-> [ingester |-> [totalReached |-> 1]]]}
        ResponsesOf(result_type, elements) ==
            {status @@ [data |-> result_type @@ stats
                                 @@ [result |-> [i \in 1..n |-> result[i]]]] :
                 status \in {EmptyDict, [status |-> "success"]},
                 stats \in StatsData,
                 n \in 0..MaxResults,
                 result \in [1..MaxResults -> elements]}
    IN  ResponsesOf(EmptyDict, StreamElements)
            \cup ResponsesOf([resultType |-> "streams"], StreamElements)
            \cup ResponsesOf([resultType |-> "scalar"], StreamElements)
            \cup ResponsesOf([resultType |-> "matrix"], MatrixElements)
            \cup ResponsesOf([resultType |-> "vector"], VectorElements)
            \cup {[status |-> "success"]}

\* the timestamps of samples in upstream's JSON text: whole seconds, the
\* eighths of a second and the milliseconds, with nine fraction digits
SampleLiterals ==
    LET seconds == {1704067200, 1704067260}
    IN  {<<s>> : s \in seconds}
            \cup {<<s, f>> : s \in seconds,
                             f \in {k * 125000000 : k \in 0..7}
                                       \cup {ms * 1000000 : ms \in 1..MaxMillis}
                                       \cup {1, 999999999}}

\* the objects constructed: the results of the responses, a result with
\* both lists filled, and the objects they are made of
Objects ==
    LET Range(seq) == {seq[i] : i \in 1..Len(seq)}
        QueryResults ==
            {QueryResult_from_loki_response(r) : r \in Responses}
                \cup {[class |-> "QueryResult", status |-> "error",
                       streams |-> <<LogStream_from_loki_stream(e)>>,
                       stats |-> QueryStats_from_loki_stats(
                                     [summary |-> [execTime |-> PyFloat(0, 0)]]),
                       result_type |-> "matrix",
                       metric_series |-> <<MetricSeries_from_loki_matrix(m)>>] :
                          e \in StreamElements, m \in MatrixElements}
        streams == UNION {Range(q.streams) : q \in QueryResults}
        series == UNION {Range(q.metric_series) : q \in QueryResults}
    IN  QueryResults \cup streams \cup series
            \cup UNION {Range(s.entries) : s \in streams}
            \cup UNION {Range(s.samples) : s \in series}
            \cup {q.stats : q \in {r \in QueryResults : Truthy(r.stats)}}

\* what session.request() can give: each exception of requests, and the
\* responses of each status code whose text is no JSON, a JSON object
\* (a success, an error with and without its text, an empty one), the
\* JSON list [] and the JSON string ""
TransportOutcomes ==
    LET Texts ==
            {<<"<html>", "ValueError", EmptyDict>>,
             <<"{success}", "dict",
               [status |-> "success", data |-> [resultType |-> "streams", result |-> <<>>]]>>,
             <<"{error, parse error}", "dict", [status |-> "error", error |-> "parse error"]>>,
             <<"{error}", "dict", [status |-> "error"]>>,
             <<"{}", "dict", EmptyDict>>,
             <<"[]", "list", <<>>>>,
             <<"''", "str", <<>>>>}
    IN  {Response(e, 0, "", "ValueError", EmptyDict) :
             e \in {"SSLError", "ConnectionError", "ConnectTimeout", "Timeout",
                    "RequestException"}}
            \cup {Response("None", code, b[1], b[2], b[3]) :
                      code \in {200, 204, 401, 403, 500}, b \in Texts}

\* obj.to_dict() and cls.from_dict(data)
to_dict(obj) ==
    CASE obj.class = "LogEntry" -> LogEntry_to_dict(obj)
      [] obj.class = "LogStream" -> LogStream_to_dict(obj)
      [] obj.class = "MetricSample" -> MetricSample_to_dict(obj)
      [] obj.class = "MetricSeries" -> MetricSeries_to_dict(obj)
      [] obj.class = "QueryStats" -> QueryStats_to_dict(obj)
      [] obj.class = "QueryResult" -> QueryResult_to_dict(obj)

from_dict(cls, data) ==
    CASE cls = "LogEntry" -> LogEntry_from_dict(data)
      [] cls = "LogStream" -> LogStream_from_dict(data)
      [] cls = "MetricSample" -> MetricSample_from_dict(data)
      [] cls = "MetricSeries" -> MetricSeries_from_dict(data)
      [] cls = "QueryStats" -> QueryStats_from_dict(data)
      [] cls = "QueryResult" -> QueryResult_from_dict(data)

FunctionsInit ==
    /\ IdleRest
    /\ sevIn = <<>>
    /\ sevOut = NotRun
    /\ \/ input \in {<<"_is_metric_query", e>> : e \in MetricInputs}
       \/ input \in {<<"from_loki_response", r>> : r \in Responses}
       \/ input \in {<<"from_loki_value", <<l, <<"4", "2">>>>>> : l \in SampleLiterals}
       \/ input \in {<<"from_dict", obj>> : obj \in Objects}
       \/ input \in {<<"_request", r>> : r \in TransportOutcomes}
    /\ output = NotRun

\* the function of the input returns v
Applied(fn, v) ==
    /\ input[1] = fn
    /\ output = NotRun
    /\ output' = Ok(v)
    /\ UNCHANGED <<input, labelValues, clientVars, last, concVars, sevVars>>

IsMetricQuery == Applied("_is_metric_query", _is_metric_query(input[2]))

FromLokiResponse == Applied("from_loki_response", QueryResult_from_loki_response(input[2]))

\* the sample [timestamp, value] as response.json() decodes it
FromLokiValue ==
    Applied("from_loki_value",
            MetricSample_from_loki_value(<<json_number(input[2][1]), input[2][2]>>))

FromDictOfToDict == Applied("from_dict", from_dict(input[2].class, to_dict(input[2])))

\* _request from the answer of session.request() on: it returns or raises
Request ==
    /\ input[1] = "_request"
    /\ output = NotRun
    /\ output' = _request(input[2])
    /\ UNCHANGED <<input, labelValues, clientVars, last, concVars, sevVars>>

FunctionsNext ==
    IsMetricQuery \/ FromLokiResponse \/ FromLokiValue \/ FromDictOfToDict \/ Request

SpecFunctions == FunctionsInit /\ [][FunctionsNext]_vars

---------------------------------------------------------------------------
(* What the properties below read from a state.                            *)

\* the label names and the tiers, spelled as the properties expect them
S_application == <<"a", "p", "p", "l", "i", "c", "a", "t", "i", "o", "n">>
S_app == <<"a", "p", "p">>
S_job == <<"j", "o", "b">>
S_service == <<"s", "e", "r", "v", "i", "c", "e">>
S_service_name == <<"s", "e", "r", "v", "i", "c", "e", "_", "n", "a", "m", "e">>
S_logger == <<"l", "o", "g", "g", "e", "r">>
S_level == <<"l", "e", "v", "e", "l">>
S_severity == <<"s", "e", "v", "e", "r", "i", "t", "y">>
S_log_level == <<"l", "o", "g", "_", "l", "e", "v", "e", "l">>
S_loglevel == <<"l", "o", "g", "l", "e", "v", "e", "l">>
S_trace == <<"t", "r", "a", "c", "e">>
S_debug == <<"d", "e", "b", "u", "g">>
S_info == <<"i", "n", "f", "o">>
S_warn == <<"w", "a", "r", "n">>
S_warning == <<"w", "a", "r", "n", "i", "n", "g">>
S_error == <<"e", "r", "r", "o", "r">>
S_fatal == <<"f", "a", "t", "a", "l">>
S_critical == <<"c", "r", "i", "t", "i", "c", "a", "l">>

Bar == <<"|">>

\* the regex of each tier, written out
RegexFromFatal == S_fatal \o Bar \o S_critical
RegexFromError == S_error \o Bar \o RegexFromFatal
RegexFromWarn == S_warn \o Bar \o S_warning \o Bar \o RegexFromError
RegexFromInfo == S_info \o Bar \o RegexFromWarn
RegexFromDebug == S_debug \o Bar \o RegexFromInfo
RegexFromTrace == S_trace \o Bar \o RegexFromDebug

TierRegex ==
    <<RegexFromTrace, RegexFromDebug, RegexFromInfo, RegexFromWarn, RegexFromWarn,
      RegexFromError, RegexFromFatal, RegexFromFatal>>

\* str is SEVERITY_TIERS[i] in some case, with whitespace around it
Spells(str, i) ==
    \E l \in Pads(MaxPad), r \in Pads(MaxPad) :
        \E w \in {SEVERITY_TIERS[i], Upper(SEVERITY_TIERS[i]), Capitalize(SEVERITY_TIERS[i])} :
            str = l \o w \o r

Recognized(str) == \E i \in 1..Len(SEVERITY_TIERS) : Spells(str, i)

\* the call that has just returned is op
Returned(op) == last.op = op

\* it raised an exception of this type
Raises(type) == last.out.exc.type = type

\* it ended for the transport or for upstream's answer
Failed == last.out.exc.type \in LokiErrors

\* its last request went to a query endpoint with this expression
Queried(expr) ==
    /\ last.reqs # <<>>
    /\ last.reqs[Len(last.reqs)].endpoint \in {EP_query, EP_query_range}
    /\ last.reqs[Len(last.reqs)].params.query = expr

\* the step is the return of a call of op
Returning(op) == last = NoCall /\ last'.op = op

---------------------------------------------------------------------------
\* C1: query() raises ValueError when both logql and app are given and when
\* neither is given, and with exactly one of them given it does not raise
\* either of these two errors.
C1_MutuallyExclusive ==
    Returned("query") =>
        LET both == Given(last.args, "logql") /\ Given(last.args, "app")
            neither == ~Given(last.args, "logql") /\ ~Given(last.args, "app")
        IN  /\ both => last.out = Raise(Exc("ValueError", "Cannot combine 'logql' with 'app'"))
            /\ neither => last.out = Raise(Exc("ValueError", "Must provide either 'logql' or 'app'"))
            /\ ~both /\ ~neither =>
                   last.out.exc.msg \notin {"Cannot combine 'logql' with 'app'",
                                            "Must provide either 'logql' or 'app'"}

C1_Witness ==
    /\ Returned("query")
    /\ Given(last.args, "logql") /\ Given(last.args, "app")
    /\ Raises("ValueError")

---------------------------------------------------------------------------
\* C2: for an application value that is not in the cache, _find_app_label
\* returns the first name of application, app, job, service, service_name,
\* logger whose label values contain the value, and raises ValueError
\* exactly when none of the six does (no request failing).
PriorityOfAppLabels == <<S_application, S_app, S_job, S_service, S_service_name, S_logger>>

\* the places in the priority order whose label holds the value upstream
Holding(a) == {i \in 1..Len(PriorityOfAppLabels) : a \in labelValues[PriorityOfAppLabels[i]]}

First(places) == CHOOSE i \in places : \A j \in places : i <= j

C2_FirstInPriority ==
    [][(/\ Returning("_find_app_label")
        /\ last'.args.app_value \notin DOMAIN _app_label_cache
        /\ last'.out.exc.type \notin LokiErrors)
       => IF Holding(last'.args.app_value) = {}
          THEN last'.out.exc.type = "ValueError"
          ELSE last'.out = Ok(PriorityOfAppLabels[First(Holding(last'.args.app_value))])]_vars

\* the value is under application and under logger, and was looked up
C2_Witness ==
    /\ Returned("_find_app_label")
    /\ Len(last.reqs) = 1
    /\ last.out = Ok(S_application)
    /\ last.args.app_value \in labelValues[S_logger]

---------------------------------------------------------------------------
\* C3: a successful _find_app_label(a) leaves a's label in the cache; with a
\* in the cache, _find_app_label(a) returns the cached label and sends no
\* request, while a value b that is not in the cache is probed, whatever
\* else the cache holds.
C3_CachedPerValue ==
    [][Returning("_find_app_label")
       => LET a == last'.args.app_value
          IN  /\ last'.out.exc = NoExc => a \in DOMAIN _app_label_cache'
                                          /\ last'.out.val = _app_label_cache'[a]
              /\ a \in DOMAIN _app_label_cache
                     => /\ last'.out = Ok(_app_label_cache[a])
                        /\ last'.reqs = <<>>
                        /\ _app_label_cache' = _app_label_cache
              /\ a \notin DOMAIN _app_label_cache => last'.reqs # <<>>]_vars

\* a cache hit for one value while the other value is not in the cache
C3_Witness ==
    /\ Returned("_find_app_label")
    /\ last.reqs = <<>>
    /\ last.out.exc = NoExc
    /\ DOMAIN _app_label_cache # Apps

---------------------------------------------------------------------------
\* C4: with nothing in the severity cache, _find_severity_label returns the
\* first name of level, severity, log_level, loglevel whose label has a
\* value and keeps it in the cache; with a label in the cache it returns
\* that label and sends no request.
PriorityOfSeverityLabels == <<S_level, S_severity, S_log_level, S_loglevel>>

NonEmpty ==
    {i \in 1..Len(PriorityOfSeverityLabels) : labelValues[PriorityOfSeverityLabels[i]] # {}}

C4_FirstNonEmptyCached ==
    [][(Returning("_find_severity_label") /\ last'.out.exc.type \notin LokiErrors)
       => IF _severity_label_cache # None
          THEN /\ last'.out = Ok(_severity_label_cache)
               /\ last'.reqs = <<>>
               /\ _severity_label_cache' = _severity_label_cache
          ELSE NonEmpty # {}
                   => /\ last'.out = Ok(PriorityOfSeverityLabels[First(NonEmpty)])
                      /\ _severity_label_cache' = last'.out.val]_vars

\* loglevel was found after three empty labels, and is in the cache
C4_Witness ==
    /\ Returned("_find_severity_label")
    /\ Len(last.reqs) = 4
    /\ last.out = Ok(S_loglevel)
    /\ _severity_label_cache = S_loglevel

---------------------------------------------------------------------------
\* C5: when none of the four severity labels has a value, a call of
\* _find_severity_label with nothing in the cache returns None without an
\* exception, leaves the cache unset, and has asked for the values of all
\* four labels: so does the next call.
C5_NothingFoundNothingCached ==
    [][(/\ Returning("_find_severity_label")
        /\ _severity_label_cache = None
        /\ NonEmpty = {}
        /\ last'.out.exc.type \notin LokiErrors)
       => /\ last'.out = Ok(None)
          /\ _severity_label_cache' = None
          /\ Len(last'.reqs) = Len(PriorityOfSeverityLabels)
          /\ \A i \in 1..Len(PriorityOfSeverityLabels) :
                 last'.reqs[i].endpoint = EP_label_values(PriorityOfSeverityLabels[i])]_vars

\* the call found nothing, on a client that has a session from earlier calls
C5_Witness ==
    /\ Returned("_find_severity_label")
    /\ last.out = Ok(None)
    /\ Len(last.reqs) = 4
    /\ last.created = 0
    /\ _severity_label_cache = None

---------------------------------------------------------------------------
\* C6: no step other than the creation of a new client removes or changes
\* an entry of the application label cache, or clears or changes a
\* severity label in the cache: no call, close() and __exit__ included, and
\* no change of upstream's label values.
C6_NeverInvalidated ==
    [][\/ NewClient
       \/ /\ \A a \in DOMAIN _app_label_cache :
                 a \in DOMAIN _app_label_cache' /\ _app_label_cache'[a] = _app_label_cache[a]
          /\ _severity_label_cache # None => _severity_label_cache' = _severity_label_cache]_vars

\* close() has returned, the labels are cached and upstream has lost them
C6_Witness ==
    /\ Returned("close")
    /\ _app_label_cache # EmptyDict
    /\ _severity_label_cache # None
    /\ labelValues = EmptyUpstream

---------------------------------------------------------------------------
\* C7, as stated: when the two threads have returned from the same first
\* lookup without a failed request, they have returned the same result, and
\* a label they returned is the one the cache holds.
SameResult == \A t, u \in Threads : thr[t].out = thr[u].out

NoneFailed == \A t \in Threads : thr[t].out.exc.type \notin LokiErrors

\* the cache holds the label the thread returned
Holds(t) ==
    (thr[t].out.exc = NoExc /\ thr[t].out.val # None) =>
        IF thr[t].call.op = "_find_app_label"
        THEN /\ thr[t].call.app_value \in DOMAIN _app_label_cache
             /\ _app_label_cache[thr[t].call.app_value] = thr[t].out.val
        ELSE _severity_label_cache = thr[t].out.val

C7_AsStated ==
    (AllDone /\ NoneFailed) => SameResult /\ \A t \in Threads : Holds(t)

\* C7: when the two threads have returned from the same first lookup
\* without a failed request, and upstream's label values have not changed
\* since the first of them entered, they have returned the same result, and
\* a label they returned is the one the cache holds.
C7_ConvergeOnStableUpstream ==
    (AllDone /\ NoneFailed /\ ~dirty) => SameResult /\ \A t \in Threads : Holds(t)

\* both threads missed the cache, both asked upstream, both found logger
C7_Witness ==
    /\ AllDone
    /\ ~dirty
    /\ \A t \in Threads : thr[t].reqs = Len(APP_LABEL_NAMES) /\ thr[t].out = Ok(S_logger)

---------------------------------------------------------------------------
\* C8, as stated: a query() call with a severity that is no tier, in any
\* case and with whitespace around it, raises ValueError.
Unrecognized == Given(last.args, "severity") /\ ~Recognized(last.args.severity)

C8_AsStated == (Returned("query") /\ Unrecognized) => Raises("ValueError")

\* C8: a query() call with a severity that is no tier raises the
\* ValueError of _build_severity_regex exactly when app is given without
\* logql, the app's label is resolved and a severity label is found.
SeverityRejected == last.out = Raise(Exc("ValueError", "is not in list"))

C8_RejectedWhenLabelFound ==
    (Returned("query") /\ Unrecognized) =>
        (SeverityRejected <=>
             /\ Given(last.args, "app") /\ ~Given(last.args, "logql")
             /\ last.args.app \in DOMAIN _app_label_cache
             /\ _severity_label_cache # None)

C8_Witness == Returned("query") /\ Unrecognized /\ SeverityRejected

---------------------------------------------------------------------------
\* C9: for a tier in any case with whitespace around it,
\* _build_severity_regex returns the tiers from it on, joined with "|", in
\* the order trace, debug, info, warn, warning, error, fatal, critical
\* (warning counts as warn, critical as fatal); for every other input it
\* raises ValueError.
C9_RegexOfTier ==
    sevOut # NotRun =>
        /\ \A i \in 1..Len(SEVERITY_TIERS) : Spells(sevIn, i) => sevOut = Ok(TierRegex[i])
        /\ ~Recognized(sevIn) => sevOut.exc.type = "ValueError"

C9_Witness == sevIn = <<"\t">> \o Upper(S_critical) /\ sevOut = Ok(RegexFromFatal)

---------------------------------------------------------------------------
\* C10: query(app=A) whose label discovery ends without a failed request
\* sends the expression {L="A"}, L the label found for A; with a severity S
\* and a severity label V found it sends {L="A", V=~"R"}, R the regex of S;
\* with a severity, recognized or not, and no severity label found it sends
\* {L="A"} and raises no ValueError.
ExprOf(L, A) == <<"{">> \o L \o <<"=", "\"">> \o A \o <<"\"", "}">>

ExprWith(L, A, V, R) ==
    <<"{">> \o L \o <<"=", "\"">> \o A \o <<"\"", ",", " ">> \o V
            \o <<"=", "~", "\"">> \o R \o <<"\"", "}">>

RegexOf(str) == TierRegex[CHOOSE i \in 1..Len(SEVERITY_TIERS) : Spells(str, i)]

\* a request for a label's values failed
DiscoveryFailed ==
    Failed /\ last.reqs[Len(last.reqs)].endpoint \notin {EP_query, EP_query_range}

C10_ResolvedExpression ==
    (/\ Returned("query")
     /\ Given(last.args, "app") /\ ~Given(last.args, "logql")
     /\ last.args.app \in DOMAIN _app_label_cache
     /\ ~DiscoveryFailed)
    => /\ ~Given(last.args, "severity")
              => Queried(ExprOf(_app_label_cache[last.args.app], last.args.app))
       /\ (Given(last.args, "severity") /\ _severity_label_cache = None)
              => /\ Queried(ExprOf(_app_label_cache[last.args.app], last.args.app))
                 /\ ~Raises("ValueError")
       /\ (/\ Given(last.args, "severity") /\ _severity_label_cache # None
           /\ Recognized(last.args.severity))
              => Queried(ExprWith(_app_label_cache[last.args.app], last.args.app,
                                  _severity_label_cache, RegexOf(last.args.severity)))

C10_Witness ==
    /\ Returned("query")
    /\ Given(last.args, "severity")
    /\ last.out.exc = NoExc
    /\ Queried(ExprWith(S_logger, A_web, S_loglevel, RegexFromWarn))

---------------------------------------------------------------------------
\* C11: query() sends an instant query (the instant endpoint, with the
\* expression and the limit and no start or end) exactly when the resolved
\* expression is a metric query and no since argument is given; otherwise
\* it sends one range query with start and end, the caller's limit (100
\* when none is given) and direction "backward".  A call sends at most one
\* query request, as its last request, and sends it whenever it gets as
\* far as the resolved expression.
QueryRequests ==
    {i \in 1..Len(last.reqs) : last.reqs[i].endpoint \in {EP_query, EP_query_range}}

SinceGiven == \E name \in {"since_minutes", "since_hours", "since_days"} : Given(last.args, name)

CallersLimit == IF Given(last.args, "limit") THEN last.args.limit ELSE 100

\* request i of the call is the instant query for its expression
InstantQuery(i) ==
    /\ last.reqs[i].endpoint = EP_query
    /\ DOMAIN last.reqs[i].params = {"query", "limit"}
    /\ last.reqs[i].params.limit = CallersLimit

\* request i of the call is the range query for its expression
RangeQuery(i) ==
    /\ last.reqs[i].endpoint = EP_query_range
    /\ DOMAIN last.reqs[i].params = {"query", "start", "end", "limit", "direction"}
    /\ last.reqs[i].params.limit = CallersLimit
    /\ last.reqs[i].params.direction = <<"b", "a", "c", "k", "w", "a", "r", "d">>

\* the call got as far as the resolved expression
Resolved ==
    \/ Given(last.args, "logql") /\ ~Given(last.args, "app")
    \/ /\ Given(last.args, "app") /\ ~Given(last.args, "logql")
       /\ ~Raises("ValueError") /\ ~DiscoveryFailed

---------------------------------------------------------------------------
\* C12: the range query of query() runs from now - N minutes to now when
\* since_minutes = N is given, else from now - N hours when since_hours = N
\* is given, else from now - N days when since_days = N is given, and from
\* now - 30 days when none is given; end - start, read back from the
\* decimal strings of the request, is that many seconds times 10^9.
DigitValue(c) == CHOOSE d \in 0..9 : <<"0", "1", "2", "3", "4", "5", "6", "7", "8", "9">>[d + 1] = c

RECURSIVE Number(_)
Number(str) == IF str = <<>> THEN 0 ELSE 10 * Number(SubSeq(str, 1, Len(str) - 1)) + DigitValue(str[Len(str)])

\* the nanosecond integer a decimal string of more than nine digits spells:
\* its seconds and its nanoseconds of the second
ReadNs(str) == <<Number(SubSeq(str, 1, Len(str) - 9)), Number(SubSeq(str, Len(str) - 8, Len(str)))>>

LookbackSeconds ==
    IF Given(last.args, "since_minutes") THEN last.args.since_minutes * 60
    ELSE IF Given(last.args, "since_hours") THEN last.args.since_hours * 60 * 60
    ELSE IF Given(last.args, "since_days") THEN last.args.since_days * 24 * 60 * 60
    ELSE 30 * 24 * 60 * 60

C12_EffectiveWindow ==
    Returned("query") =>
        \A i \in QueryRequests :
            last.reqs[i].endpoint = EP_query_range =>
                LET start == ReadNs(last.reqs[i].params.start)
                    end == ReadNs(last.reqs[i].params.end)
                IN  /\ end \in Nows
                    /\ start[2] = end[2]
                    /\ end[1] - start[1] = LookbackSeconds

\* minutes, hours and days all given: the window is the ten minutes
C12_Witness ==
    /\ Returned("query")
    /\ Given(last.args, "since_minutes") /\ Given(last.args, "since_hours")
    /\ last.args.since_minutes = 10
    /\ QueryRequests = {1}
    /\ last.reqs[1].params.start =
           <<"1", "7", "0", "4", "0", "6", "6", "6", "0", "0",
             "5", "0", "0", "0", "0", "0", "0", "0", "0">>
    /\ last.reqs[1].params.end =
           <<"1", "7", "0", "4", "0", "6", "7", "2", "0", "0",
             "5", "0", "0", "0", "0", "0", "0", "0", "0">>

---------------------------------------------------------------------------
\* What the properties of the functions applied alone read from a state.

\* the function fn has been applied to the input
Applying(fn) == input[1] = fn /\ output.exc = NoExc

\* of the response parsed: its data and its result elements
DataGiven == DictGet(input[2], "data", EmptyDict)
ResultGiven == DictGet(DataGiven, "result", <<>>)

---------------------------------------------------------------------------
\* C13: _is_metric_query(E) is true exactly when E is whitespace, then one
\* of the 21 keywords in any case, then "(" or " (", then anything; so it
\* is false for a keyword after the start of the string, for a log
\* selector, and for an empty and a whitespace-only string.
Keywords == {metric_prefixes[i] : i \in 1..Len(metric_prefixes)}

MetricShaped(E) ==
    \E n \in 0..Len(E), m \in 0..Len(E) :
        /\ n <= m
        /\ \A i \in 1..n : E[i] \in {" ", "\t", "\n"}
        /\ \E k \in Keywords : Lower(SubSeq(E, n + 1, m)) \in {k \o <<"(">>, k \o <<" ", "(">>}

C13_KeywordPrefix ==
    Applying("_is_metric_query") =>
        /\ Cardinality(Keywords) = 21
        /\ output.val = MetricShaped(input[2])
        /\ (\A i \in 1..Len(input[2]) : input[2][i] \in {" ", "\t", "\n"}) => output.val = FALSE
        /\ (input[2] # <<>> /\ input[2][1] = "{") => output.val = FALSE

\* a keyword in upper case followed by " ("
C13_Witness ==
    /\ input = <<"_is_metric_query", <<"S", "U", "M", " ", "(", "{", "}", ")">>>>
    /\ output = Ok(TRUE)

---------------------------------------------------------------------------
\* C14: a QueryResult made by from_loki_response with result type
\* "streams" has no metric series and one stream per result element, in
\* the order of the response; with result type "matrix" or "vector" it has
\* no streams and one metric series per result element, in that order.
C14_OneSidePopulated ==
    Applying("from_loki_response") =>
        /\ output.val.result_type = "streams" =>
               /\ output.val.metric_series = <<>>
               /\ Len(output.val.streams) = Len(ResultGiven)
               /\ \A i \in 1..Len(ResultGiven) :
                      output.val.streams[i].labels = DictGet(ResultGiven[i], "stream", EmptyDict)
        /\ output.val.result_type \in {"matrix", "vector"} =>
               /\ output.val.streams = <<>>
               /\ Len(output.val.metric_series) = Len(ResultGiven)
               /\ \A i \in 1..Len(ResultGiven) :
                      output.val.metric_series[i].labels
                          = DictGet(ResultGiven[i], "metric", EmptyDict)

\* a vector of two series, the series of z before the series of x
C14_Witness ==
    /\ Applying("from_loki_response")
    /\ output.val.result_type = "vector"
    /\ output.val.streams = <<>>
    /\ Len(output.val.metric_series) = 2
    /\ output.val.metric_series[1].labels = [app |-> "z"]
    /\ output.val.metric_series[2].labels = [app |-> "x"]

---------------------------------------------------------------------------
\* C15: for a response whose result type is none of "streams", "matrix"
\* and "vector", from_loki_response parses the result elements as streams,
\* leaves the metric series empty and returns a QueryResult whose result
\* type is one of the three; without a result type it is "streams".
C15_AsStated ==
    (/\ Applying("from_loki_response")
     /\ DictGet(DataGiven, "resultType", "absent") \notin {"streams", "matrix", "vector"})
        => /\ Len(output.val.streams) = Len(ResultGiven)
           /\ output.val.metric_series = <<>>
           /\ output.val.result_type \in {"streams", "matrix", "vector"}
           /\ "resultType" \notin DOMAIN DataGiven => output.val.result_type = "streams"

---------------------------------------------------------------------------
\* C16: of a "vector" response each result element makes a series with one
\* sample when its value is a pair and with no sample when the value is
\* absent or empty; of a "matrix" response each element makes a series
\* with one sample for each of its values, in their order.

\* the nanoseconds of a timestamp of whole seconds and eighths of a second
EighthsNs(x) ==
    IF "int" \in DOMAIN x THEN <<x.int, 0>>
    ELSE <<x.whole, (x.frac \div (FloatGrid \div 8)) * 125000000>>

C16_SamplesOfSeries ==
    Applying("from_loki_response") =>
        /\ DictGet(DataGiven, "resultType", "absent") = "vector" =>
               \A i \in 1..Len(ResultGiven) :
                   Len(output.val.metric_series[i].samples)
                       = IF "value" \in DOMAIN ResultGiven[i] /\ ResultGiven[i].value # <<>>
                         THEN 1 ELSE 0
        /\ DictGet(DataGiven, "resultType", "absent") = "matrix" =>
               \A i \in 1..Len(ResultGiven) :
                   LET values == DictGet(ResultGiven[i], "values", <<>>)
                       samples == output.val.metric_series[i].samples
                   IN  /\ Len(samples) = Len(values)
                       /\ \A j \in 1..Len(values) :
                              samples[j].timestamp = EighthsNs(values[j][1])

\* a vector whose first element has a value and whose second has none
C16_Witness ==
    /\ Applying("from_loki_response")
    /\ DictGet(DataGiven, "resultType", "absent") = "vector"
    /\ Len(ResultGiven) = 2
    /\ "value" \notin DOMAIN ResultGiven[2]
    /\ Len(output.val.metric_series[1].samples) = 1
    /\ output.val.metric_series[1].samples[1].timestamp = <<1704067200, 500000000>>
    /\ output.val.metric_series[2].samples = <<>>

---------------------------------------------------------------------------
\* C17: of a "streams" response each LogStream holds one entry for each of
\* the element's values, in their order: the entry's timestamp written in
\* decimal is the value's timestamp string, and its message is the
\* value's message.
C17_EntriesAsGiven ==
    (Applying("from_loki_response") /\ output.val.result_type = "streams") =>
        \A i \in 1..Len(ResultGiven) :
            LET values == DictGet(ResultGiven[i], "values", <<>>)
                entries == output.val.streams[i].entries
            IN  /\ Len(entries) = Len(values)
                /\ \A j \in 1..Len(values) :
                       /\ NsStr(entries[j].timestamp) = values[j][1]
                       /\ entries[j].message = values[j][2]

\* the later entry first, the earlier second, and the earlier once more
C17_Witness ==
    /\ Applying("from_loki_response")
    /\ output.val.result_type = "streams"
    /\ Len(output.val.streams) = 1
    /\ output.val.streams[1].entries =
           <<[class |-> "LogEntry", timestamp |-> <<1704067260, 123456789>>,
              message |-> "second"],
             [class |-> "LogEntry", timestamp |-> <<1704067200, 0>>, message |-> "first"],
             [class |-> "LogEntry", timestamp |-> <<1704067200, 0>>, message |-> "first"]>>

---------------------------------------------------------------------------
\* C18: a sample whose timestamp upstream writes as s seconds, a whole
\* number or a decimal number with nanoseconds, gets the timestamp
\* floor(s) * 10^9 + (s - floor(s)) * 10^9: the seconds and the nanoseconds
\* that upstream wrote.
C18_AsStated ==
    Applying("from_loki_value") =>
        output.val.timestamp
            = IF Len(input[2][1]) = 1 THEN <<input[2][1][1], 0>>
              ELSE <<input[2][1][1], input[2][1][2]>>

---------------------------------------------------------------------------
\* C19 as stated: stats are made of data.stats.summary when it is present,
\* with 0, 0 and 0.0 for the fields it lacks, and are absent when the
\* response holds no summary; status is copied, "unknown" when absent.
SummaryGiven ==
    "stats" \in DOMAIN DataGiven /\ "summary" \in DOMAIN DataGiven.stats

\* the stats made of a summary
StatsOf(summary) ==
    [class |-> "QueryStats",
     bytes_processed |->
         IF "totalBytesProcessed" \in DOMAIN summary THEN summary.totalBytesProcessed ELSE 0,
     lines_processed |->
         IF "totalLinesProcessed" \in DOMAIN summary THEN summary.totalLinesProcessed ELSE 0,
     exec_time_seconds |->
         IF "execTime" \in DOMAIN summary THEN summary.execTime ELSE PyFloat(0, 0)]

StatusCopied ==
    output.val.status = IF "status" \in DOMAIN input[2] THEN input[2].status ELSE "unknown"

C19_AsStated ==
    Applying("from_loki_response") =>
        /\ StatusCopied
        /\ IF SummaryGiven THEN output.val.stats = StatsOf(DataGiven.stats.summary)
           ELSE output.val.stats = NoneObject

\* C19: stats are absent exactly when the response holds no data.stats or
\* an empty one; otherwise they are made of data.stats.summary, with 0, 0
\* and 0.0 for the fields it lacks and for all three when data.stats holds
\* no summary; status is copied, "unknown" when absent.
C19_StatsWhenStatsGiven ==
    Applying("from_loki_response") =>
        /\ StatusCopied
        /\ IF "stats" \in DOMAIN DataGiven /\ DOMAIN DataGiven.stats # {}
           THEN output.val.stats
                    = StatsOf(IF SummaryGiven THEN DataGiven.stats.summary ELSE EmptyDict)
           ELSE output.val.stats = NoneObject

\* a summary with the lines only, in a response without a status
C19_Witness ==
    /\ Applying("from_loki_response")
    /\ "status" \notin DOMAIN input[2]
    /\ SummaryGiven
    /\ DOMAIN DataGiven.stats.summary = {"totalLinesProcessed"}
    /\ output.val.status = "unknown"
    /\ output.val.stats = [class |-> "QueryStats", bytes_processed |-> 0,
                           lines_processed |-> 17, exec_time_seconds |-> PyFloat(0, 0)]

---------------------------------------------------------------------------
\* C20: for every object constructed, of QueryResult, LogEntry, LogStream,
\* MetricSample, MetricSeries and QueryStats, from_dict(to_dict(obj)) is
\* equal to obj in every field.
C20_RoundTrip == Applying("from_dict") => output.val = input[2]

\* a QueryResult with both lists filled and stats of 0, 0 and 0.0
C20_Witness ==
    /\ Applying("from_dict")
    /\ input[2].class = "QueryResult"
    /\ input[2].streams # <<>> /\ input[2].metric_series # <<>>
    /\ input[2].stats = [class |-> "QueryStats", bytes_processed |-> 0,
                         lines_processed |-> 0, exec_time_seconds |-> PyFloat(0, 0)]
    /\ output.val = input[2]

---------------------------------------------------------------------------
\* What the properties of _request applied alone read from a state.

\* _request has returned or raised; the kind of exception it raised
Requested == input[1] = "_request" /\ output.exc.type # "NotRun"
Kind == output.exc.type

\* the conditions on the transport's answer, each under the ones before it
ConnectionFailed == input[2].exc # "None"
AuthRefused == ~ConnectionFailed /\ input[2].status_code \in {401, 403}
NotOk == ~ConnectionFailed /\ ~AuthRefused /\ input[2].status_code # 200
Unparsable ==
    ~ConnectionFailed /\ ~AuthRefused /\ ~NotOk /\ input[2].json = "ValueError"
ErrorStatus ==
    /\ ~ConnectionFailed /\ ~AuthRefused /\ ~NotOk /\ ~Unparsable
    /\ input[2].json = "dict"
    /\ "status" \in DOMAIN input[2].body
    /\ input[2].body.status = "error"

---------------------------------------------------------------------------
\* C21: _request classifies the answer of the transport in this order: an
\* exception of the transport gives LokiConnectionError; else status 401
\* or 403 gives LokiAuthError; else a status other than 200 gives
\* LokiQueryError with the response text; else a text that is no JSON
\* gives LokiQueryError; else a JSON object with status "error" gives
\* LokiQueryError with upstream's error text; the decoded body is returned
\* in none of these cases, and is returned when it is another JSON object.
C21_Precedence ==
    Requested =>
        /\ ConnectionFailed => Kind = "LokiConnectionError"
        /\ AuthRefused => Kind = "LokiAuthError"
        /\ NotOk =>
               /\ Kind = "LokiQueryError"
               /\ "text" \in DOMAIN output.exc
               /\ output.exc.text = input[2].text
        /\ Unparsable => Kind = "LokiQueryError"
        /\ ErrorStatus =>
               /\ Kind = "LokiQueryError"
               /\ "error" \in DOMAIN output.exc
               /\ output.exc.error = IF "error" \in DOMAIN input[2].body
                                     THEN input[2].body.error ELSE "Unknown error"
        /\ Kind = "None" =>
               /\ ~(ConnectionFailed \/ AuthRefused \/ NotOk \/ Unparsable \/ ErrorStatus)
               /\ output.val = input[2].body
        /\ (/\ ~(ConnectionFailed \/ AuthRefused \/ NotOk \/ Unparsable \/ ErrorStatus)
            /\ input[2].json = "dict") => Kind = "None"

\* status 401 with a JSON object of status "error": the status code decides
C21_Witness ==
    /\ Requested
    /\ input[2].status_code = 401
    /\ input[2].json = "dict"
    /\ "error" \in DOMAIN input[2].body
    /\ Kind = "LokiAuthError"

---------------------------------------------------------------------------
\* C29: whenever _request does not return a decoded JSON object, it raises
\* LokiConnectionError, LokiAuthError or LokiQueryError: for every
\* exception of the transport, every status code, and every text of a 200
\* response, be it no JSON, a JSON object or a JSON value of another type.
C29_AsStated ==
    Requested =>
        \/ Kind = "None" /\ input[2].json = "dict"
        \/ Kind \in LokiErrors

---------------------------------------------------------------------------
\* What the properties of the requests of a call read from a state.

\* a call has returned; its requests, and their number
Called == last.op # "none"
Requests == last.reqs
Last == Len(last.reqs)

\* request i of the call asks for the values of the label
ProbeOf(i, label) == Requests[i].endpoint = EP_label_values(label)
IsProbe(i) == Len(Requests[i].endpoint) = 3
IsQuery(i) == Requests[i].endpoint \in {EP_query, EP_query_range}

---------------------------------------------------------------------------
\* C22: no operation sends a request twice, and a request that fails for
\* the connection, the credentials or upstream's answer is the last
\* request of its operation: the operation raises that failure and
\* returns no value.  So a query() whose label probe fails has sent no
\* query request.
C22_NoRetry ==
    Called =>
        /\ \A i \in 1..Last, j \in 1..Last :
               i < j => \/ Requests[i].endpoint # Requests[j].endpoint
                        \/ IsQuery(i) /\ IsQuery(j)
        /\ Cardinality({i \in 1..Last : IsQuery(i)}) <= 1
        /\ \A i \in 1..Last :
               Requests[i].raised # "None" =>
                   /\ i = Last
                   /\ Requests[i].raised \in LokiErrors
                   /\ Raises(Requests[i].raised)
                   /\ last.out.val = None
        /\ Failed => Last > 0 /\ Requests[Last].raised # "None"

\* query(app, severity): the probe of the second label name fails for the
\* credentials, and no third request follows
C22_Witness ==
    /\ Returned("query")
    /\ Given(last.args, "severity")
    /\ Last = 2
    /\ IsProbe(2)
    /\ Requests[2].raised = "LokiAuthError"
    /\ Raises("LokiAuthError")

---------------------------------------------------------------------------
\* C23: query_range(logql, start, end, limit, direction) sends exactly one
\* request, to the range endpoint, with the expression as given, start and
\* end as decimal strings of the nanoseconds, and limit and direction as
\* given; a metric expression too goes to the range endpoint; no label is
\* probed and neither label cache changes.
C23_RangeQueryDirect ==
    [][Returning("query_range") =>
           /\ UNCHANGED <<_app_label_cache, _severity_label_cache>>
           /\ Len(last'.reqs) = 1
           /\ last'.reqs[1].endpoint = EP_query_range
           /\ DOMAIN last'.reqs[1].params = {"query", "start", "end", "limit", "direction"}
           /\ last'.reqs[1].params.query = last'.args.logql
           /\ ReadNs(last'.reqs[1].params.start) = last'.args.start
           /\ ReadNs(last'.reqs[1].params.end) = last'.args.end
           /\ last'.reqs[1].params.limit = last'.args.limit
           /\ last'.reqs[1].params.direction = last'.args.direction]_vars

\* a metric expression, forward, with a limit of 5 and both caches filled
C23_Witness ==
    /\ Returned("query_range")
    /\ _is_metric_query(last.args.logql)
    /\ last.args.limit = 5
    /\ Last = 1
    /\ Requests[1].endpoint = EP_query_range
    /\ Requests[1].params.direction = <<"f", "o", "r", "w", "a", "r", "d">>
    /\ Requests[1].params.end = <<"1", "7", "0", "4", "0", "6", "7", "2", "0", "0",
                                  "5", "0", "0", "0", "0", "0", "0", "0", "0">>
    /\ _app_label_cache # EmptyDict
    /\ _severity_label_cache # None
    /\ ~Failed

---------------------------------------------------------------------------
\* C24: query(logql=E) sends one request, a query with the expression E as
\* given; it probes no label and changes neither label cache, also when a
\* severity is given with E, which is not read.
C24_ExpressionAsGiven ==
    [][(/\ Returning("query")
        /\ Given(last'.args, "logql")
        /\ ~Given(last'.args, "app")) =>
           /\ UNCHANGED <<_app_label_cache, _severity_label_cache>>
           /\ Len(last'.reqs) = 1
           /\ last'.reqs[1].endpoint \in {EP_query, EP_query_range}
           /\ last'.reqs[1].params.query = last'.args.logql
           /\ last'.out.exc.type \in {"None"} \cup LokiErrors]_vars

\* an expression with a severity that is no tier: the query is answered
C24_Witness ==
    /\ Returned("query")
    /\ Given(last.args, "logql")
    /\ Given(last.args, "severity") /\ ~Recognized(last.args.severity)
    /\ Last = 1
    /\ IsQuery(1)
    /\ Requests[1].params.query = last.args.logql
    /\ last.out.exc = NoExc

---------------------------------------------------------------------------
\* C28: a query() call with both logql and app, or with neither, raises
\* ValueError without a request and without constructing a session, and
\* leaves the session and both label caches as they were.
C28_RejectedBeforeRequest ==
    [][(/\ Returning("query")
        /\ Given(last'.args, "logql") <=> Given(last'.args, "app")) =>
           /\ last'.out.exc.type = "ValueError"
           /\ last'.reqs = <<>>
           /\ last'.created = 0
           /\ UNCHANGED <<_session, _app_label_cache, _severity_label_cache>>]_vars

\* both given, for an application upstream holds and the cache does not
C28_Witness ==
    /\ Returned("query")
    /\ Given(last.args, "logql") /\ Given(last.args, "app")
    /\ Raises("ValueError")
    /\ Requests = <<>>
    /\ last.args.app \notin DOMAIN _app_label_cache
    /\ \E i \in 1..Len(APP_LABEL_NAMES) : last.args.app \in labelValues[APP_LABEL_NAMES[i]]

---------------------------------------------------------------------------
\* C25: with the value not in the cache and no request failing,
\* _find_app_label(a) sends k requests when the k-th of the six label
\* names is the first whose values hold a, and 6 when none does; with no
\* label in the cache, _find_severity_label sends k requests when the k-th
\* of the four names is the first with a value, and 4 when none has.  The
\* i-th request asks for the values of the i-th name, and a call with a
\* failing request has sent no more requests than that.
ProbesExpected(places, names) == IF places = {} THEN Len(names) ELSE First(places)

\* the requests are the probes of the first names, in their order
ProbesInOrder(names) ==
    /\ Last <= Len(names)
    /\ \A i \in 1..Last : ProbeOf(i, names[i])

C25_ProbesUntilFirstHit ==
    [][/\ (/\ Returning("_find_app_label")
           /\ last'.args.app_value \notin DOMAIN _app_label_cache) =>
              /\ ProbesInOrder(PriorityOfAppLabels)'
              /\ Last' <= ProbesExpected(Holding(last'.args.app_value), PriorityOfAppLabels)
              /\ ~Failed' =>
                     Last' = ProbesExpected(Holding(last'.args.app_value),
                                            PriorityOfAppLabels)
       /\ (Returning("_find_severity_label") /\ _severity_label_cache = None) =>
              /\ ProbesInOrder(PriorityOfSeverityLabels)'
              /\ Last' <= ProbesExpected(NonEmpty, PriorityOfSeverityLabels)
              /\ ~Failed' => Last' = ProbesExpected(NonEmpty, PriorityOfSeverityLabels)]_vars

\* the first severity label has a value: one request
C25_Witness ==
    /\ Returned("_find_severity_label")
    /\ NonEmpty = {1, 4}
    /\ Last = 1
    /\ last.created = 1
    /\ last.out = Ok(S_level)

---------------------------------------------------------------------------
\* What the properties of query(app, severity) read from a state.

\* the call that has returned is query(app=A, severity=S)
AppQuery ==
    /\ Given(last.args, "app")
    /\ Given(last.args, "severity")
    /\ ~Given(last.args, "logql")

\* its requests for the values of application labels, of severity labels,
\* and its query requests
AppProbes ==
    {i \in 1..Last : \E k \in 1..Len(PriorityOfAppLabels) : ProbeOf(i, PriorityOfAppLabels[k])}
SeverityProbes ==
    {i \in 1..Last :
         \E k \in 1..Len(PriorityOfSeverityLabels) : ProbeOf(i, PriorityOfSeverityLabels[k])}
Queries == {i \in 1..Last : IsQuery(i)}

\* application probes, then severity probes, then queries, the probes of
\* each kind in the order of the label names
InOrder ==
    /\ AppProbes \cup SeverityProbes \cup Queries = 1..Last
    /\ \A i \in AppProbes : ProbeOf(i, PriorityOfAppLabels[i])
    /\ \A i \in SeverityProbes :
           /\ i > Cardinality(AppProbes)
           /\ ProbeOf(i, PriorityOfSeverityLabels[i - Cardinality(AppProbes)])
    /\ \A i \in Queries : i > Cardinality(AppProbes) + Cardinality(SeverityProbes)

---------------------------------------------------------------------------
\* C26, as stated: a query(app=A, severity=S) call whose requests do not
\* fail sends the application probes, then the severity probes, then
\* exactly one query request as its last request, at most 11 requests in
\* all, and exactly 1 when both label caches are filled.
C26_AsStated ==
    [][(Returning("query") /\ AppQuery' /\ ~Failed') =>
           /\ InOrder'
           /\ Queries' = {Last'}
           /\ Last' <= 6 + 4 + 1
           /\ (/\ last'.args.app \in DOMAIN _app_label_cache
               /\ _severity_label_cache # None) => Last' = 1]_vars

\* C26: every query(app=A, severity=S) call sends the application probes,
\* then the severity probes, then at most one query request, which is its
\* last request: at most 11 requests in all.  A call that returns a result
\* has sent exactly one query request.  With both label caches filled the
\* call sends exactly 1 request when S is a recognized tier, and none, and
\* raises ValueError, when it is not.
C26_ProbesThenQuery ==
    [][(Returning("query") /\ AppQuery') =>
           /\ InOrder'
           /\ Queries' \subseteq {Last'}
           /\ last'.out.exc = NoExc <=> (Queries' = {Last'} /\ ~Failed')
           /\ Last' <= 6 + 4 + 1
           /\ (/\ last'.args.app \in DOMAIN _app_label_cache
               /\ _severity_label_cache # None) =>
                  IF Recognized(last'.args.severity)
                  THEN Last' = 1
                  ELSE Last' = 0 /\ last'.out.exc.type = "ValueError"]_vars

\* six application probes, four severity probes and the query
C26_Witness ==
    /\ Returned("query")
    /\ AppQuery
    /\ Cardinality(AppProbes) = 6
    /\ Cardinality(SeverityProbes) = 4
    /\ Queries = {11}
    /\ last.out.exc = NoExc

---------------------------------------------------------------------------
\* C27: a _find_app_label(a) call that raises, for the six label names
\* being exhausted or for a request that failed on the way, leaves the
\* application cache (and the severity cache) as it was; and every call
\* for a value that is not in the cache begins with the first label name.
C27_FailureLeavesCache ==
    [][Returning("_find_app_label") =>
           /\ last'.out.exc # NoExc =>
                  /\ UNCHANGED <<_app_label_cache, _severity_label_cache>>
                  /\ last'.args.app_value \notin DOMAIN _app_label_cache'
           /\ last'.args.app_value \notin DOMAIN _app_label_cache =>
                  /\ Last' >= 1
                  /\ ProbeOf(1, PriorityOfAppLabels[1])']_vars

\* the third request failed, with the other application in the cache
C27_Witness ==
    /\ Returned("_find_app_label")
    /\ Last = 3
    /\ Raises("LokiQueryError")
    /\ _app_label_cache # EmptyDict
    /\ last.args.app_value \notin DOMAIN _app_label_cache

---------------------------------------------------------------------------
\* C30: the client holds no session or one.  It holds none when it is
\* constructed; a call that sends a request constructs one when there is
\* none and uses the one there is otherwise, and a call that sends none
\* leaves the session as it is; close() and __exit__ leave the client
\* without a session, send nothing and change no label cache, also when
\* there was no session.
C30_OneSession ==
    [][/\ _session \in {0, 1} /\ _session' \in {0, 1}
       /\ (\E op \in {"close", "__exit__"} : Returning(op)) =>
              /\ _session' = 0
              /\ last'.created = 0 /\ last'.reqs = <<>>
              /\ last'.out = Ok(None)
              /\ UNCHANGED <<_app_label_cache, _severity_label_cache>>
       /\ (last = NoCall /\ last'.op \notin {"none", "close", "__exit__"}) =>
              IF last'.reqs = <<>>
              THEN _session' = _session /\ last'.created = 0
              ELSE _session' = 1 /\ last'.created = IF _session = 0 THEN 1 ELSE 0
       /\ (last = NoCall /\ last' = NoCall /\ _session' # _session) =>
              <<_session', _app_label_cache', _severity_label_cache'>> = <<0, EmptyDict, None>>
       /\ last # NoCall => _session' = _session]_vars

\* a call after close() has constructed a session, and the caches are kept
C30_Witness ==
    /\ Returned("get_labels")
    /\ last.created = 1
    /\ _session = 1
    /\ _app_label_cache # EmptyDict
    /\ _severity_label_cache # None

=============================================================================
